---- MODULE Spec2Model ----
(***************************************************************************)
(* Model of the NOF0 batch importer (src/server/nof0/importer.py) and of   *)
(* the snapshot reader it uses (src/server/nof0/data_loader.py).           *)
(*                                                                         *)
(* Part 1 models Python values as json.load produces them and the pure     *)
(* normalisers null_if_empty, null_float, to_ms and to_ms_float.           *)
(* Part 2 models run_import as a state machine over the database tables,   *)
(* one action per statement that reads a snapshot or writes a row.         *)
(*                                                                         *)
(* Strings are sequences of one-character strings, so that strip(), the    *)
(* float/int parsers and concatenation are computed character by           *)
(* character.  Numbers are sign-magnitude with two decimal limbs and a     *)
(* binary fraction (sixteenths): every such number, and its product with   *)
(* 1000 below the 1e12 threshold, is exactly representable as an IEEE      *)
(* double, so the arithmetic below is the arithmetic Python performs.      *)
(***************************************************************************)
EXTENDS Integers, Sequences, FiniteSets, TLC

VARIABLES
    files,          \* data directory: snapshot name -> "absent" | "malformed" | document
    tbl,            \* database: table name -> set of rows
    conv_seq,       \* conversations.id sequence (last value handed out)
    msg_seq,        \* conversation_messages.id sequence
    now,            \* database clock, read by now() in upsert_model_analytics
    db_up,          \* whether the connection to the database works
    pc,             \* statement run_import is at ("idle" between passes)
    idx,            \* index of the record the current section's loop is at
    sub,            \* index of the inner loop (positions of a model, messages)
    cur,            \* locals of the loop body (model_id, conversation_id)
    model_ids,      \* run_import's local set model_ids
    symbols,        \* run_import's local set symbols
    truncate,       \* options.truncate of the current pass
    passes,         \* number of passes started
    outcome,        \* how the last pass ended: "none" | "ok" | name of the exception
    log,            \* messages logged by the current pass
    prev,           \* tables as they were when the current pass started
    prev_outcome,   \* outcome of the pass before the current one
    fn_name,        \* pure-function harness: function applied
    fn_arg,         \* pure-function harness: argument
    fn_res          \* pure-function harness: result

vars == <<files, tbl, conv_seq, msg_seq, now, db_up, pc, idx, sub, cur,
          model_ids, symbols, truncate, passes, outcome, log, prev,
          prev_outcome, fn_name, fn_arg, fn_res>>

impVars == <<files, tbl, conv_seq, msg_seq, now, db_up, pc, idx, sub, cur,
             model_ids, symbols, truncate, passes, outcome, log, prev,
             prev_outcome>>

fnVars == <<fn_name, fn_arg, fn_res>>

(***************************************************************************)
(* PART 1: Python values                                                   *)
(***************************************************************************)

\* Decimal limb: a magnitude is hi * LimbBase + lo + fr / FrDen.
LimbBase == 10 ^ 6

\* Denominator of the binary fraction.
FrDen == 2 ^ 4

\* The threshold 1e12 of to_ms / to_ms_float, as a count of limbs.
ThresholdHi == 10 ^ 6

Fin(neg, hi, lo, fr) == [c |-> "fin", neg |-> neg, hi |-> hi, lo |-> lo, fr |-> fr]
NaN == [c |-> "nan"]
Inf(neg) == [c |-> "inf", neg |-> neg]

Nat2Num(n) == Fin(FALSE, n \div LimbBase, n % LimbBase, 0)

\* A whole number from 2^53 up to 2^54, beyond the two limbs of Fin:
\* top * LimbBase^2 + hi * LimbBase + lo.  The doubles of that range are its
\* even numbers.
Big(top, hi, lo) == [c |-> "big", top |-> top, hi |-> hi, lo |-> lo]

\* float(n) of an int n: n itself below 2^53; from 2^53 up to 2^54 the nearest
\* even number, a tie going to the multiple of 4 (round half to even).
FloatOfInt(n) ==
    IF n.c # "big" \/ n.lo % 2 = 0 THEN n
    ELSE IF n.lo % 4 = 1 THEN [n EXCEPT !.lo = @ - 1]
    ELSE IF n.lo + 1 < LimbBase THEN [n EXCEPT !.lo = @ + 1]
    ELSE IF n.hi + 1 < LimbBase THEN [n EXCEPT !.lo = 0, !.hi = @ + 1]
    ELSE [n EXCEPT !.lo = 0, !.hi = 0, !.top = @ + 1]

PyNone == [k |-> "none"]
PyInt(num) == [k |-> "int", v |-> num]
PyFloat(num) == [k |-> "float", v |-> num]
PyStr(s) == [k |-> "str", s |-> s]
PyBool(b) == [k |-> "bool", b |-> b]
PyList == [k |-> "list"]
\* A JSON object as far as to_ms looks at it: has it a "$numberInt" key, and its value.
PyDict(has, ni) == [k |-> "dict", has |-> has, ni |-> ni]

\* The outcome of a call: a returned value or a raised exception.
Ok(v) == [ok |-> TRUE, v |-> v]
Raise(e) == [ok |-> FALSE, exc |-> e]

NumIsZero(n) == n.c = "fin" /\ n.hi = 0 /\ n.lo = 0 /\ n.fr = 0

\* number <= 1e12 on floats.
LessOrEqual1e12(n) ==
    CASE n.c = "nan" -> FALSE
      [] n.c = "inf" -> n.neg
      [] n.c = "big" -> FALSE
      [] OTHER -> n.neg \/ n.hi < ThresholdHi \/ (n.hi = ThresholdHi /\ n.lo = 0 /\ n.fr = 0)

\* number < 1e12 on floats (every comparison with nan is False).
LessThan1e12(n) ==
    CASE n.c = "nan" -> FALSE
      [] n.c = "inf" -> n.neg
      [] n.c = "big" -> FALSE
      [] OTHER -> n.neg \/ n.hi < ThresholdHi

\* number * 1000 on floats.
MulThousand(n) ==
    IF n.c # "fin" THEN n
    ELSE LET f == n.fr * 1000
             l == n.lo * 1000 + (f \div FrDen)
         IN Fin(n.neg, n.hi * 1000 + (l \div LimbBase), l % LimbBase, f % FrDen)

\* int(number) on a float: truncation toward zero; nan and the infinities raise.
IntOfFloat(n) ==
    CASE n.c = "nan" -> Raise("ValueError")
      [] n.c = "inf" -> Raise("OverflowError")
      [] n.c = "big" -> Ok(PyInt(n))
      [] OTHER -> Ok(PyInt(Fin(n.neg /\ (n.hi # 0 \/ n.lo # 0), n.hi, n.lo, 0)))

\* ---- strings ----

Whitespace == {" ", "\t", "\n"}
DigitChars == {"0", "1", "2", "3", "4", "5", "6", "7", "8", "9"}

DigitVal(c) ==
    CASE c = "0" -> 0 [] c = "1" -> 1 [] c = "2" -> 2 [] c = "3" -> 3
      [] c = "4" -> 4 [] c = "5" -> 5 [] c = "6" -> 6 [] c = "7" -> 7
      [] c = "8" -> 8 [] c = "9" -> 9

DigitChar(d) == <<"0", "1", "2", "3", "4", "5", "6", "7", "8", "9">>[d + 1]

RECURSIVE LStrip(_)
LStrip(s) == IF s # <<>> /\ Head(s) \in Whitespace THEN LStrip(Tail(s)) ELSE s

RECURSIVE RStrip(_)
RStrip(s) ==
    IF s # <<>> /\ s[Len(s)] \in Whitespace THEN RStrip(SubSeq(s, 1, Len(s) - 1)) ELSE s

\* str.strip()
Strip(s) == RStrip(LStrip(s))

AllDigits(s) == \A i \in 1..Len(s) : s[i] \in DigitChars

\* Value of a digit string as a number (two limbs).
RECURSIVE DigitsToNum(_, _)
DigitsToNum(s, acc) ==
    IF s = <<>> THEN acc
    ELSE LET l == acc.lo * 10 + DigitVal(Head(s))
         IN DigitsToNum(Tail(s),
                Fin(FALSE, acc.hi * 10 + (l \div LimbBase), l % LimbBase, 0))

RECURSIVE DigitsToNat(_, _)
DigitsToNat(s, acc) ==
    IF s = <<>> THEN acc ELSE DigitsToNat(Tail(s), acc * 10 + DigitVal(Head(s)))

\* Decimal digits of a natural number, and of a number of two limbs (str(int)).
RECURSIVE NatDigits(_)
NatDigits(n) == IF n < 10 THEN <<DigitChar(n)>> ELSE NatDigits(n \div 10) \o <<DigitChar(n % 10)>>

RECURSIVE PadLeft(_, _)
PadLeft(s, w) == IF Len(s) >= w THEN s ELSE PadLeft(<<"0">> \o s, w)

IntStr(n) ==
    (IF n.neg THEN <<"-">> ELSE <<>>) \o
    (IF n.hi = 0 THEN NatDigits(n.lo) ELSE NatDigits(n.hi) \o PadLeft(NatDigits(n.lo), 6))

\* Position of the first occurrence of character c in s, 0 if none.
RECURSIVE IndexOf(_, _, _)
IndexOf(s, c, i) ==
    IF i > Len(s) THEN 0 ELSE IF s[i] = c THEN i ELSE IndexOf(s, c, i + 1)

\* The unsigned decimal literals float() accepts: digits, digits.digits, digits., .digits
\* (exponents and underscores are outside the alphabet the model draws from).
\* A fraction is converted exactly: the model draws dyadic fractions only.
ParseUnsignedDecimal(s) ==
    LET dot == IndexOf(s, ".", 1)
        ip == IF dot = 0 THEN s ELSE SubSeq(s, 1, dot - 1)
        fp == IF dot = 0 THEN <<>> ELSE SubSeq(s, dot + 1, Len(s))
    IN IF (ip = <<>> /\ fp = <<>>) \/ ~AllDigits(ip) \/ ~AllDigits(fp)
       THEN Raise("ValueError")
       ELSE LET i == DigitsToNum(ip, Fin(FALSE, 0, 0, 0))
            IN Ok(Fin(FALSE, i.hi, i.lo, (DigitsToNat(fp, 0) * FrDen) \div (10 ^ Len(fp))))

\* float(str): surrounding whitespace is ignored; an optional sign; "inf",
\* "infinity", "nan" or a decimal literal; anything else raises ValueError.
ParseFloat(s) ==
    LET t == Strip(s)
        signed == t # <<>> /\ Head(t) \in {"-", "+"}
        neg == t # <<>> /\ Head(t) = "-"
        body == IF signed THEN Tail(t) ELSE t
    IN IF body = <<"n", "a", "n">> THEN Ok(NaN)
       ELSE IF body \in {<<"i", "n", "f">>, <<"i", "n", "f", "i", "n", "i", "t", "y">>}
       THEN Ok(Inf(neg))
       ELSE LET r == ParseUnsignedDecimal(body)
            IN IF r.ok THEN Ok([r.v EXCEPT !.neg = neg]) ELSE r

\* int(str): surrounding whitespace is ignored; an optional sign; digits only.
ParseInt(s) ==
    LET t == Strip(s)
        signed == t # <<>> /\ Head(t) \in {"-", "+"}
        neg == t # <<>> /\ Head(t) = "-"
        body == IF signed THEN Tail(t) ELSE t
    IN IF body = <<>> \/ ~AllDigits(body) THEN Raise("ValueError")
       ELSE LET n == DigitsToNum(body, Fin(FALSE, 0, 0, 0))
            IN Ok(PyInt([n EXCEPT !.neg = neg /\ (n.hi # 0 \/ n.lo # 0)]))

\* float(value), the builtin.
float(value) ==
    CASE value.k = "float" -> Ok(value.v)
      [] value.k = "int" -> Ok(FloatOfInt(value.v))
      [] value.k = "bool" -> Ok(Fin(FALSE, 0, IF value.b THEN 1 ELSE 0, 0))
      [] value.k = "str" -> ParseFloat(value.s)
      [] OTHER -> Raise("TypeError")

\* int(value), the builtin.
int(value) ==
    CASE value.k = "int" -> Ok(value)
      [] value.k = "float" -> IntOfFloat(value.v)
      [] value.k = "bool" -> Ok(PyInt(Fin(FALSE, 0, IF value.b THEN 1 ELSE 0, 0)))
      [] value.k = "str" -> ParseInt(value.s)
      [] OTHER -> Raise("TypeError")

Zero == PyInt(Fin(FALSE, 0, 0, 0))

\* ---- ISO-8601 (datetime.fromisoformat and datetime.timestamp) ----

\* value.replace("Z", "+00:00")
RECURSIVE ReplaceZ(_)
ReplaceZ(s) ==
    IF s = <<>> THEN <<>>
    ELSE (IF Head(s) = "Z" THEN <<"+", "0", "0", ":", "0", "0">> ELSE <<Head(s)>>)
         \o ReplaceZ(Tail(s))

IsLeap(y) == (y % 4 = 0 /\ y % 100 # 0) \/ y % 400 = 0

DaysInMonth(y, m) ==
    IF m = 2 THEN (IF IsLeap(y) THEN 29 ELSE 28)
    ELSE IF m \in {4, 6, 9, 11} THEN 30 ELSE 31

RECURSIVE DaysBeforeMonth(_, _)
DaysBeforeMonth(y, m) == IF m = 1 THEN 0 ELSE DaysBeforeMonth(y, m - 1) + DaysInMonth(y, m - 1)

RECURSIVE DaysBeforeYear(_)
DaysBeforeYear(y) ==
    IF y <= 1970 THEN 0 ELSE DaysBeforeYear(y - 1) + (IF IsLeap(y - 1) THEN 366 ELSE 365)

Num2(s, i) == DigitsToNat(SubSeq(s, i, i + 1), 0)

\* datetime.fromisoformat(s) followed by .timestamp(), in whole seconds, for the
\* shapes YYYY-MM-DD, YYYY-MM-DD?HH:MM:SS and YYYY-MM-DD?HH:MM:SS(+|-)HH:MM with a
\* year from 1970 on; any other text raises ValueError.  A datetime without an
\* offset is read in the process's time zone, taken to be UTC.
IsoTimestamp(s) ==
    LET n == Len(s)
        dateOk == /\ n >= 10
                  /\ AllDigits(SubSeq(s, 1, 4)) /\ s[5] = "-"
                  /\ AllDigits(SubSeq(s, 6, 7)) /\ s[8] = "-"
                  /\ AllDigits(SubSeq(s, 9, 10))
        y == DigitsToNat(SubSeq(s, 1, 4), 0)
        m == Num2(s, 6)
        d == Num2(s, 9)
        timeOk == /\ n >= 19
                  /\ AllDigits(SubSeq(s, 12, 13)) /\ s[14] = ":"
                  /\ AllDigits(SubSeq(s, 15, 16)) /\ s[17] = ":"
                  /\ AllDigits(SubSeq(s, 18, 19))
                  /\ Num2(s, 12) <= 23 /\ Num2(s, 15) <= 59 /\ Num2(s, 18) <= 59
        offOk == /\ n = 25
                 /\ s[20] \in {"+", "-"}
                 /\ AllDigits(SubSeq(s, 21, 22)) /\ s[23] = ":"
                 /\ AllDigits(SubSeq(s, 24, 25))
                 /\ Num2(s, 21) <= 23 /\ Num2(s, 24) <= 59
        shapeOk == /\ dateOk
                   /\ y >= 1970 /\ m \in 1..12 /\ d >= 1 /\ d <= DaysInMonth(y, m)
                   /\ \/ n = 10
                      \/ n = 19 /\ timeOk
                      \/ n = 25 /\ timeOk /\ offOk
    IN IF ~shapeOk THEN Raise("ValueError")
       ELSE LET days == DaysBeforeYear(y) + DaysBeforeMonth(y, m) + (d - 1)
                tod == IF n = 10 THEN 0
                       ELSE Num2(s, 12) * 3600 + Num2(s, 15) * 60 + Num2(s, 18)
                off == IF n < 25 THEN 0
                       ELSE (IF s[20] = "-" THEN -1 ELSE 1)
                            * (Num2(s, 21) * 3600 + Num2(s, 24) * 60)
            IN Ok(days * 86400 + tod - off)

(***************************************************************************)
(* The normalisers of importer.py                                          *)
(***************************************************************************)

\* null_if_empty without the strip(): only the empty string becomes None.
null_if_empty_NoStrip(value) ==
    IF value.k = "str" /\ value.s = <<>> THEN PyNone ELSE value

\* null_if_empty (importer.py 299-302); never raises.
null_if_empty(value) ==
    IF value.k = "str" /\ Strip(value.s) = <<>> THEN PyNone ELSE value

\* null_float without the zero test: float(value), None when it cannot be parsed.
null_float_KeepZero(value) ==
    LET r == float(value)
    IN IF ~r.ok
       THEN (IF r.exc \in {"TypeError", "ValueError"} THEN Ok(PyNone) ELSE r)
       ELSE Ok(PyFloat(r.v))

\* null_float (importer.py 305-310)
null_float(value) ==
    LET r == float(value)
    IN IF ~r.ok
       THEN (IF r.exc \in {"TypeError", "ValueError"} THEN Ok(PyNone) ELSE r)
       ELSE IF NumIsZero(r.v) THEN Ok(PyNone) ELSE Ok(PyFloat(r.v))

\* The seconds/milliseconds rule shared by to_ms and to_ms_float:
\* int(number * 1000) if number < 1e12 else int(number).
ScaleToMs(number) ==
    IF LessThan1e12(number) THEN IntOfFloat(MulThousand(number)) ELSE IntOfFloat(number)

\* The ISO branch of to_ms (importer.py 330-336).
IsoToMs(s) ==
    LET t == IsoTimestamp(ReplaceZ(s))
    IN IF ~t.ok THEN Ok(Zero)
       ELSE IF t.v >= 0 THEN IntOfFloat(MulThousand(Nat2Num(t.v)))
       ELSE IntOfFloat(MulThousand([Nat2Num(-t.v) EXCEPT !.neg = TRUE]))

\* to_ms (importer.py 313-339)
to_ms(value) ==
    CASE value.k = "none" -> Ok(Zero)
      [] value.k \in {"int", "float", "bool"} ->
            LET f == float(value).v
            IN IF LessThan1e12(f) THEN IntOfFloat(MulThousand(f)) ELSE int(value)
      [] value.k = "str" ->
            LET s == Strip(value.s)
                p == ParseFloat(s)
                conv == ScaleToMs(p.v)
            IN IF s = <<>> THEN Ok(Zero)
               ELSE IF ~p.ok THEN IsoToMs(s)
               ELSE IF conv.ok THEN conv
               ELSE IF conv.exc = "ValueError" THEN IsoToMs(s)
               ELSE conv
      [] value.k = "dict" /\ value.has -> int(value.ni)
      [] OTHER -> Ok(Zero)

\* to_ms_float that hands every value to to_ms.
to_ms_float_ViaToMs(value) == to_ms(value)

\* to_ms_float (importer.py 342-351)
to_ms_float(value) ==
    IF value.k = "none" THEN Ok(Zero)
    ELSE LET r == float(value)
         IN IF ~r.ok
            THEN (IF r.exc \in {"TypeError", "ValueError"} THEN to_ms(value) ELSE r)
            ELSE ScaleToMs(r.v)

(***************************************************************************)
(* Pure-function harness: the argument is drawn from SampleValues and one  *)
(* of the normalisers is applied to it.                                    *)
(***************************************************************************)

S_empty == <<>>
S_blank == <<" ">>
S_tab == <<"\t", " ">>
S_0 == <<"0">>
S_0p0 == <<"0", ".", "0">>
S_5 == <<"5">>
S_5pad == <<" ", "5", " ">>
S_m5 == <<"-", "5">>
S_1p5 == <<"1", ".", "5">>
S_p1875 == <<"0", ".", "1", "8", "7", "5">>
S_abc == <<"a", "b", "c">>
S_x == <<"x">>
S_nan == <<"n", "a", "n">>
S_inf == <<"i", "n", "f">>
S_1e12p75 == <<"1", "0", "0", "0", "0", "0", "0", "0", "0", "0", "0", "0", "0", ".", "7", "5">>
S_17e8 == <<"1", "7", "0", "0", "0", "0", "0", "0", "0", "0">>
S_isoZ == <<"1", "9", "7", "0", "-", "0", "1", "-", "0", "2", "T", "0", "0", ":", "0", "0", ":", "0", "1", "Z">>
S_isoDate == <<"1", "9", "7", "0", "-", "0", "1", "-", "0", "2">>
S_isoBad == <<"1", "9", "7", "0", "-", "1", "3", "-", "0", "1">>
S_long == <<"l", "o", "n", "g">>
S_open == <<"o", "p", "e", "n">>
S_assistant == <<"a", "s", "s", "i", "s", "t", "a", "n", "t">>

SampleStrings ==
    {S_empty, S_blank, S_tab, S_0, S_0p0, S_5, S_5pad, S_m5, S_1p5, S_p1875, S_abc,
     S_nan, S_inf, S_1e12p75, S_17e8, S_isoZ, S_isoDate, S_isoBad, S_long}

SampleNums ==
    {Fin(FALSE, 0, 0, 0), Fin(FALSE, 0, 5, 0), Fin(TRUE, 0, 5, 0),
     Fin(FALSE, 1700, 0, 0), Fin(FALSE, 999999, 999999, 0),
     Fin(FALSE, 1000000, 0, 0), Fin(FALSE, 1700000, 0, 0)}

SampleFloats ==
    SampleNums \cup
    {Fin(TRUE, 0, 0, 0), Fin(FALSE, 0, 1, 8), Fin(FALSE, 0, 0, 3), Fin(TRUE, 0, 0, 3),
     Fin(FALSE, 999999, 999999, 12), Fin(FALSE, 1000000, 0, 12), NaN, Inf(FALSE), Inf(TRUE)}

\* 2^53 + 1 and 2^53 + 3
SampleBigs == {Big(9007, 199254, 740993), Big(9007, 199254, 740995)}

SampleValues ==
    {PyNone, PyList, PyBool(TRUE), PyBool(FALSE)}
    \cup {PyInt(n) : n \in SampleNums \cup SampleBigs}
    \cup {PyFloat(n) : n \in SampleFloats}
    \cup {PyStr(s) : s \in SampleStrings}
    \cup {PyDict(FALSE, PyNone), PyDict(TRUE, PyStr(S_5)), PyDict(TRUE, PyStr(S_x)),
          PyDict(TRUE, PyNone), PyDict(TRUE, PyInt(Fin(FALSE, 0, 5, 0))),
          PyDict(TRUE, PyStr(S_17e8))}

(***************************************************************************)
(* PART 2: the importer                                                    *)
(***************************************************************************)

\* A key a JSON object does not have.
Absent == [k |-> "absent"]

\* dict.get(key, default)
Get(field, default) == IF field.k = "absent" THEN default ELSE field

\* str(value), for the values a model_id or symbol field is drawn from.
str(value) ==
    CASE value.k = "str" -> value.s
      [] value.k = "none" -> <<"N", "o", "n", "e">>
      [] value.k = "int" -> IntStr(value.v)
      [] value.k = "bool" -> IF value.b THEN <<"T", "r", "u", "e">>
                                        ELSE <<"F", "a", "l", "s", "e">>

\* Truth value of a Python object (the left operand of "or").
Truthy(value) ==
    CASE value.k = "none" -> FALSE
      [] value.k = "str" -> value.s # <<>>
      [] value.k = "bool" -> value.b
      [] value.k \in {"int", "float"} -> ~NumIsZero(value.v)
      [] OTHER -> TRUE

\* ---- snapshot files (data_loader.py) ----

Sections == <<"prices", "since", "trades", "positions", "analytics", "conversations">>
SectionSet == {Sections[i] : i \in 1..Len(Sections)}

FileAbsent == [st |-> "absent"]
FileMalformed == [st |-> "malformed"]
Doc(recs) == [st |-> "ok", recs |-> recs]

\* DataLoader._load_json (data_loader.py 93-96): open() raises FileNotFoundError for
\* an absent file, json.load raises JSONDecodeError for text that is not JSON.
\* The load_* methods wrap it and return the list (or mapping) under the
\* section's key, [] when the key is missing.
load_json(f) ==
    CASE f.st = "absent" -> Raise("FileNotFoundError")
      [] f.st = "malformed" -> Raise("JSONDecodeError")
      [] OTHER -> Ok(f.recs)

\* ---- database tables ----

Tables == {"models", "symbols", "price_latest", "trades", "positions",
           "model_analytics", "conversations", "conversation_messages"}

EmptyTables == [t \in Tables |-> {}]

\* upsert_model (importer.py 190-195): ON CONFLICT (id) DO UPDATE SET display_name
upsert_model(t, model_id, display_name) ==
    LET key == Strip(model_id)
    IN [t EXCEPT !.models = {r \in @ : r.id # key}
                            \cup {[id |-> key, display_name |-> display_name]}]

\* upsert_symbol (importer.py 198-200): ON CONFLICT (symbol) DO NOTHING
upsert_symbol(t, symbol) ==
    [t EXCEPT !.symbols = @ \cup {[symbol |-> Strip(symbol)]}]

\* upsert_price_latest with ON CONFLICT (symbol) DO NOTHING: the first price stays.
upsert_price_latest_KeepFirst(t, symbol, price, timestamp_ms) ==
    IF \E r \in t.price_latest : r.symbol = symbol THEN t
    ELSE [t EXCEPT !.price_latest =
              @ \cup {[symbol |-> symbol, price |-> price, ts_ms |-> timestamp_ms]}]

\* upsert_price_latest (importer.py 203-208): ON CONFLICT (symbol) DO UPDATE
upsert_price_latest(t, symbol, price, timestamp_ms) ==
    [t EXCEPT !.price_latest = {r \in @ : r.symbol # symbol}
                 \cup {[symbol |-> symbol, price |-> price, ts_ms |-> timestamp_ms]}]

\* The parameters insert_trade binds (importer.py 222-238).  leverage and
\* confidence are sanitised exactly like quantity, and the price and pnl columns
\* are passed through exactly like side; one column of each kind is kept.
TradeParams(trade, entry_ms, exit_ms) ==
    [id |-> Get(trade.id, PyNone),
     model_id |-> Get(trade.model_id, PyNone),
     symbol |-> Get(trade.symbol, PyNone),
     side |-> Get(trade.side, PyNone),
     trade_type |-> null_if_empty(Get(trade.trade_type, PyNone)),
     quantity |-> null_float(Get(trade.quantity, PyNone)).v,
     entry_ts_ms |-> entry_ms,
     exit_ts_ms |-> exit_ms]

\* insert_trade with ON CONFLICT (id) DO UPDATE: the row of the id is replaced.
insert_trade_Overwrite(t, trade, entry_ms, exit_ms) ==
    LET params == TradeParams(trade, entry_ms, exit_ms)
    IN [t EXCEPT !.trades = {r \in @ : r.id # params.id} \cup {params}]

\* insert_trade (importer.py 211-239): ON CONFLICT (id) DO NOTHING
insert_trade(t, trade, entry_ms, exit_ms) ==
    LET params == TradeParams(trade, entry_ms, exit_ms)
    IN IF \E r \in t.trades : r.id = params.id THEN t
       ELSE [t EXCEPT !.trades = @ \cup {params}]

\* A synthetic key that leaves the entry timestamp out.
PositionId_NoTimestamp(model_id, symbol, entry_ms) ==
    model_id \o <<":">> \o symbol

\* The synthetic key f"{model_id}:{symbol}:{entry_ms}" (importer.py 249).
PositionId(model_id, symbol, entry_ms) ==
    model_id \o <<":">> \o symbol \o <<":">> \o IntStr(entry_ms.v)

\* insert_position_open (importer.py 242-264): ON CONFLICT (id) DO NOTHING
insert_position_open(t, model_id, symbol, pos, entry_ms) ==
    LET identifier == PositionId(model_id, symbol, entry_ms)
        row == [id |-> identifier,
                model_id |-> model_id,
                symbol |-> symbol,
                side |-> S_long,
                entry_price |-> Get(pos.entry_price, PyNone),
                leverage |-> null_float(Get(pos.leverage, PyNone)).v,
                entry_ts_ms |-> entry_ms,
                status |-> S_open]
    IN IF \E r \in t.positions : r.id = identifier THEN t
       ELSE [t EXCEPT !.positions = @ \cup {row}]

\* json.dumps(obj): the text of obj in the default layout.
json_dumps(obj) == [k |-> "jsonstr", obj |-> obj, style |-> "default"]

\* json.loads(text): the object a JSON text encodes, whatever its layout.
json_loads(text) ==
    CASE text.k = "jsonstr" -> Ok(text.obj)
      [] text.k = "str" -> Raise("JSONDecodeError")
      [] OTHER -> Raise("TypeError")

\* upsert_model_analytics without its ON CONFLICT clause, every row stamped.
upsert_model_analytics_NoConflict(t, model_id, payload, clock) ==
    LET text == IF payload.k \in {"str", "jsonstr"} THEN payload ELSE json_dumps(payload)
    IN [t EXCEPT !.model_analytics =
            @ \cup {[model_id |-> model_id, payload |-> text, updated_at |-> clock]}]

\* upsert_model_analytics (importer.py 267-274): ON CONFLICT (model_id) DO UPDATE
\* SET payload, updated_at = now().  The INSERT names model_id and payload only:
\* a new row's updated_at is the column's default, written 0 here; the clock
\* reads 1 or more.
upsert_model_analytics(t, model_id, payload, clock) ==
    LET text == IF payload.k \in {"str", "jsonstr"} THEN payload ELSE json_dumps(payload)
        conflict == \E r \in t.model_analytics : r.model_id = model_id
    IN [t EXCEPT !.model_analytics = {r \in @ : r.model_id # model_id}
                 \cup {[model_id |-> model_id, payload |-> text,
                        updated_at |-> IF conflict THEN clock ELSE 0]}]

\* insert_conversation made an upsert keyed by model_id.
insert_conversation_Dedup(t, identifier, model_id) ==
    IF \E r \in t.conversations : r.model_id = model_id THEN t
    ELSE [t EXCEPT !.conversations = @ \cup {[id |-> identifier, model_id |-> model_id]}]

\* insert_conversation (importer.py 277-282): a new row with the next id, RETURNING id
insert_conversation(t, identifier, model_id) ==
    [t EXCEPT !.conversations = @ \cup {[id |-> identifier, model_id |-> model_id]}]

\* insert_conversation_message that files every message under conversation 1.
insert_conversation_message_FirstConversation(t, identifier, conversation_id, role, content, timestamp_ms) ==
    [t EXCEPT !.conversation_messages = @ \cup
        {[id |-> identifier,
          conversation_id |-> 1,
          role |-> IF Truthy(role) THEN role ELSE PyStr(S_assistant),
          content |-> content,
          ts_ms |-> timestamp_ms]}]

\* insert_conversation_message (importer.py 285-296)
insert_conversation_message(t, identifier, conversation_id, role, content, timestamp_ms) ==
    [t EXCEPT !.conversation_messages = @ \cup
        {[id |-> identifier,
          conversation_id |-> conversation_id,
          role |-> IF Truthy(role) THEN role ELSE PyStr(S_assistant),
          content |-> content,
          ts_ms |-> timestamp_ms]}]

(***************************************************************************)
(* The data directories the model draws from                               *)
(***************************************************************************)

\* Number of passes (runs of run_import) a behaviour makes.
MaxPasses == 2

\* Number of snapshot files that differ from the baseline directory.
MaxVaried == 2

S_m1 == <<"m", "1">>
S_m1sp == <<" ", "m", "1">>
S_m2 == <<"m", "2">>
S_BTC == <<"B", "T", "C">>
S_BTCsp == <<"B", "T", "C", " ">>
S_ETH == <<"E", "T", "H">>
S_t1 == <<"t", "1">>
S_t2 == <<"t", "2">>
S_user == <<"u", "s", "e", "r">>
S_hi == <<"h", "i">>
S_a == <<"a">>
S_b == <<"b">>
S_c == <<"c">>
S_a_b == <<"a", ":", "b">>
S_b_c == <<"b", ":", "c">>

I_5 == PyInt(Fin(FALSE, 0, 5, 0))
I_sec == PyInt(Fin(FALSE, 1700, 0, 0))
I_ms == PyInt(Fin(FALSE, 1700000, 1, 0))
F_5 == PyFloat(Fin(FALSE, 0, 5, 0))
F_frac == PyFloat(Fin(FALSE, 1700, 0, 3))

PricePayload(price, timestamp) == [k |-> "dict", price |-> price, timestamp |-> timestamp]
PriceRec(symbol, payload) == [sym |-> symbol, payload |-> payload]

TradeRec(id, model_id, symbol, trade_type, quantity, entry_time, exit_time) ==
    [k |-> "dict", id |-> id, model_id |-> model_id, symbol |-> symbol,
     side |-> PyStr(S_long), trade_type |-> trade_type, quantity |-> quantity,
     entry_time |-> entry_time, exit_time |-> exit_time]

PosRec(entry_time, leverage) ==
    [k |-> "dict", entry_time |-> entry_time, entry_price |-> I_5, leverage |-> leverage]
PosMap(items) == [k |-> "map", items |-> items]
ModelData(model_id, positions) == [k |-> "dict", model_id |-> model_id, positions |-> positions]

AnalyticsRec(model_id, body) == [k |-> "dict", model_id |-> model_id, body |-> body]

Message(role, content, timestamp) ==
    [k |-> "dict", role |-> role, content |-> content, timestamp |-> timestamp]
MsgList(items) == [k |-> "list", items |-> items]
Convo(model_id, messages) == [k |-> "dict", model_id |-> model_id, messages |-> messages]

\* The baseline directory: every snapshot present, one well-formed record each.
Baseline ==
    [prices |-> Doc(<<PriceRec(S_BTC, PricePayload(F_5, I_sec))>>),
     since |-> Doc(<<>>),
     trades |-> Doc(<<TradeRec(PyStr(S_t1), PyStr(S_m1), PyStr(S_BTC), PyStr(S_long),
                               I_5, I_sec, I_ms)>>),
     positions |-> Doc(<<ModelData(PyStr(S_m1),
                            PosMap(<<[sym |-> S_BTC, pos |-> PosRec(I_sec, I_5)]>>))>>),
     analytics |-> Doc(<<AnalyticsRec(PyStr(S_m1), S_a)>>),
     conversations |-> Doc(<<Convo(PyStr(S_m1),
                                   MsgList(<<Message(PyStr(S_user), PyStr(S_hi), I_sec)>>))>>)]

\* What a snapshot may hold instead of its baseline document.
Variants ==
    [prices |->
        {FileAbsent,
         \* a key with trailing whitespace
         Doc(<<PriceRec(S_BTCsp, PricePayload(F_5, PyStr(S_isoZ)))>>),
         \* the second price is not a number: float("abc") raises
         Doc(<<PriceRec(S_ETH, PricePayload(Absent, Absent)),
               PriceRec(S_BTC, PricePayload(PyStr(S_abc), I_sec))>>),
         \* a payload that is not an object
         Doc(<<PriceRec(S_ETH, I_5)>>)},
     since |-> {FileAbsent, FileMalformed},
     trades |->
        {FileAbsent,
         \* whitespace around model_id and symbol, blank trade_type, zero quantity;
         \* then no model_id, a null symbol, no trade_type
         Doc(<<TradeRec(PyStr(S_t2), PyStr(S_m1sp), PyStr(S_BTCsp), PyStr(S_blank),
                        PyInt(Fin(FALSE, 0, 0, 0)), F_frac, PyStr(S_abc)),
               TradeRec(PyStr(S_a), Absent, PyNone, Absent, Absent, Absent, Absent)>>),
         \* the same id twice with different values; empty trade_type
         Doc(<<TradeRec(PyStr(S_t1), PyStr(S_m1), PyStr(S_BTC), PyStr(S_long),
                        I_5, I_sec, I_ms),
               TradeRec(PyStr(S_t1), PyStr(S_m2), PyStr(S_ETH), PyStr(S_empty),
                        PyStr(S_abc), I_ms, Absent)>>),
         \* a record that is not an object after a good one
         Doc(<<TradeRec(PyStr(S_t2), PyStr(S_m2), PyStr(S_ETH), I_5, F_5, I_sec, I_ms),
               PyStr(S_abc)>>),
         \* a tagged integer that is not an integer
         Doc(<<TradeRec(PyStr(S_t2), PyStr(S_m2), PyStr(S_ETH), PyStr(S_long), I_5,
                        PyDict(TRUE, PyStr(S_x)), I_ms)>>)},
     positions |->
        {FileAbsent,
         Doc(<<ModelData(PyStr(S_m1sp),
                   PosMap(<<[sym |-> S_BTCsp, pos |-> PosRec(I_sec, PyInt(Fin(FALSE, 0, 0, 0)))]>>))>>),
         Doc(<<ModelData(Absent,
                   PosMap(<<[sym |-> S_BTC, pos |-> PosRec(I_sec, Absent)],
                            [sym |-> S_ETH, pos |-> PosRec(PyStr(S_inf), I_5)]>>)),
               ModelData(PyStr(S_m2), PyNone)>>),
         Doc(<<ModelData(PyStr(S_m2), Absent),
               ModelData(PyStr(S_m2),
                   PosMap(<<[sym |-> S_ETH, pos |-> PosRec(I_ms, I_5)]>>))>>),
         \* model "a:b" with symbol "c", then model "a" with symbol "b:c"
         Doc(<<ModelData(PyStr(S_a_b), PosMap(<<[sym |-> S_c, pos |-> PosRec(I_sec, I_5)]>>)),
               ModelData(PyStr(S_a), PosMap(<<[sym |-> S_b_c, pos |-> PosRec(I_sec, F_5)]>>))>>)},
     analytics |->
        {FileAbsent,
         \* an entry that is a JSON-encoded string
         Doc(<<AnalyticsRec(PyStr(S_m2), S_a),
               [k |-> "jsonstr", obj |-> AnalyticsRec(PyStr(S_m1), S_a), style |-> "compact"]>>),
         \* two entries of one model, whitespace around the model_id; a blank model_id
         Doc(<<AnalyticsRec(PyStr(S_m1sp), S_a), AnalyticsRec(PyStr(S_m1), S_b),
               AnalyticsRec(PyStr(S_blank), S_a)>>),
         \* an entry that is a string and no JSON text
         Doc(<<AnalyticsRec(PyStr(S_m1), S_a), PyStr(S_abc)>>)},
     conversations |->
        {FileAbsent, FileMalformed,
         \* no model_id; a message without a role, one with an empty role
         Doc(<<Convo(Absent,
                     MsgList(<<Message(Absent, PyStr(S_hi), PyStr(S_isoZ)),
                               Message(PyStr(S_empty), Absent, Absent)>>))>>),
         \* two conversations of one model, the second without messages
         Doc(<<Convo(PyStr(S_m1), MsgList(<<Message(PyStr(S_user), PyStr(S_hi), I_sec)>>)),
               Convo(PyStr(S_m1sp), Absent)>>),
         \* a message whose timestamp cannot be converted
         Doc(<<Convo(PyStr(S_m2),
                     MsgList(<<Message(PyStr(S_user), PyStr(S_hi), I_ms),
                               Message(PyStr(S_user), PyStr(S_hi), PyFloat(NaN))>>))>>)}]

\* The directories: the baseline with at most MaxVaried snapshots replaced.
Dirs ==
    UNION {
        {[x \in SectionSet |-> IF x \in V THEN c[x] ELSE Baseline[x]] :
            c \in {f \in [V -> UNION {Variants[x] : x \in V}] :
                        \A x \in V : f[x] \in Variants[x]}} :
        V \in {W \in SUBSET SectionSet : Cardinality(W) <= MaxVaried}}

(***************************************************************************)
(* run_import (importer.py 51-177)                                         *)
(***************************************************************************)

NoLocals == [model_id |-> <<>>, conversation_id |-> 0]

LogEntry(sec, ev, n, n2) == [sec |-> sec, ev |-> ev, n |-> n, n2 |-> n2]

\* The section a statement belongs to, and the statement after a section.
SectionOf(p) ==
    CASE p \in {"prices", "prices_symbol", "prices_row"} -> "prices"
      [] p = "since" -> "since"
      [] p \in {"trades", "trade_model", "trade_symbol", "trade_row"} -> "trades"
      [] p \in {"positions", "pos_model", "pos_symbol", "pos_row"} -> "positions"
      [] p \in {"analytics", "an_model", "an_raw", "an_blob"} -> "analytics"
      [] p \in {"conversations", "cv_model", "cv_row", "cv_msg"} -> "conversations"
      [] OTHER -> "none"

\* A pass that imports the positions before the trades.
AfterSection_PositionsFirst(sec) ==
    CASE sec = "prices" -> "since"
      [] sec = "since" -> "positions"
      [] sec = "positions" -> "trades"
      [] sec = "trades" -> "analytics"
      [] sec = "analytics" -> "conversations"
      [] sec = "conversations" -> "finish"

AfterSection(sec) ==
    CASE sec = "prices" -> "since"
      [] sec = "since" -> "trades"
      [] sec = "trades" -> "positions"
      [] sec = "positions" -> "analytics"
      [] sec = "analytics" -> "conversations"
      [] sec = "conversations" -> "finish"

\* The statements that execute SQL on the connection.
WritePcs ==
    {"truncate", "prices_symbol", "prices_row", "trade_model", "trade_symbol", "trade_row",
     "pos_model", "pos_symbol", "pos_row", "an_model", "an_blob", "cv_model", "cv_row",
     "cv_msg"}

\* A section's handler that catches nothing.
Catches_Nothing(exc) == FALSE

\* A section's handler that catches everything (except Exception).
Catches_Everything(exc) == TRUE

\* The handler every section's try block has: except FileNotFoundError.
Catches(exc) == exc = "FileNotFoundError"

\* An exception leaving run_import inside a transaction: the pass's writes are undone.
Raised_Rollback(exc) ==
    /\ IF SectionOf(pc) # "none" /\ Catches(exc)
       THEN /\ pc' = AfterSection(SectionOf(pc))
            /\ log' = Append(log, LogEntry(SectionOf(pc), "skip", 0, 0))
            /\ outcome' = outcome
            /\ tbl' = tbl
       ELSE /\ pc' = "idle"
            /\ log' = log
            /\ outcome' = exc
            /\ tbl' = prev
    /\ idx' = 0 /\ sub' = 0 /\ cur' = NoLocals
    /\ UNCHANGED <<files, conv_seq, msg_seq, now, model_ids, symbols,
                   truncate, passes, prev, prev_outcome, fnVars>>

\* An exception raised by the statement at pc: inside a section's try block it is
\* caught (the section is skipped with a warning) or it leaves run_import; the
\* tables are left as they are (autocommit, importer.py 60).
Raised(exc) ==
    /\ IF SectionOf(pc) # "none" /\ Catches(exc)
       THEN /\ pc' = AfterSection(SectionOf(pc))
            /\ log' = Append(log, LogEntry(SectionOf(pc), "skip", 0, 0))
            /\ outcome' = outcome
       ELSE /\ pc' = "idle"
            /\ log' = log
            /\ outcome' = exc
    /\ idx' = 0 /\ sub' = 0 /\ cur' = NoLocals
    /\ UNCHANGED <<files, tbl, conv_seq, msg_seq, now, model_ids, symbols,
                   truncate, passes, prev, prev_outcome, fnVars>>

\* The section's loop is over: its "imported" line is logged.
EndSection(sec, n) ==
    /\ pc' = AfterSection(sec)
    /\ log' = Append(log, LogEntry(sec, "imported", n, 0))
    /\ idx' = 0 /\ sub' = 0 /\ cur' = NoLocals

\* main() starts a pass: options are parsed, the connection is opened (59-60).
Start ==
    /\ pc = "idle" /\ passes < MaxPasses
    /\ \E t \in BOOLEAN :
        /\ truncate' = t
        /\ IF db_up
           THEN pc' = (IF t THEN "truncate" ELSE "prices") /\ outcome' = "running"
           ELSE pc' = "idle" /\ outcome' = "OperationalError"
    /\ passes' = passes + 1
    /\ now' = now + 1
    /\ prev' = tbl
    /\ prev_outcome' = outcome
    /\ log' = <<>>
    /\ model_ids' = {} /\ symbols' = {}
    /\ idx' = 0 /\ sub' = 0 /\ cur' = NoLocals
    /\ UNCHANGED <<files, tbl, conv_seq, msg_seq, db_up, fnVars>>

\* A TRUNCATE that leaves trades and price_latest out of its list of tables.
truncate_tables_Partial ==
    /\ pc = "truncate"
    /\ tbl' = [EmptyTables EXCEPT !.trades = tbl.trades, !.price_latest = tbl.price_latest]
    /\ conv_seq' = 0 /\ msg_seq' = 0
    /\ pc' = "prices"
    /\ log' = Append(log, LogEntry("truncate", "truncated", 0, 0))
    /\ UNCHANGED <<files, now, db_up, idx, sub, cur, model_ids, symbols, truncate,
                   passes, outcome, prev, prev_outcome, fnVars>>

\* _truncate_tables (importer.py 180-187): TRUNCATE ... RESTART IDENTITY CASCADE
truncate_tables ==
    /\ pc = "truncate"
    /\ tbl' = EmptyTables
    /\ conv_seq' = 0 /\ msg_seq' = 0
    /\ pc' = "prices"
    /\ log' = Append(log, LogEntry("truncate", "truncated", 0, 0))
    /\ UNCHANGED <<files, now, db_up, idx, sub, cur, model_ids, symbols, truncate,
                   passes, outcome, prev, prev_outcome, fnVars>>

\* A statement fails in the database (connection loss): psycopg raises.
DbFailure ==
    /\ pc \in WritePcs
    /\ db_up
    /\ db_up' = FALSE
    /\ Raised("OperationalError")

\* A section's first statement: the snapshot is loaded (importer.py 67, 86, 105, 123, 152).
LoadSection(sec, first) ==
    /\ pc = sec
    /\ LET r == load_json(files[sec])
       IN IF ~r.ok THEN Raised(r.exc) /\ UNCHANGED db_up
          ELSE /\ IF r.v = <<>>
                  THEN IF sec = "analytics"
                       THEN pc' = "an_raw" /\ idx' = 0 /\ sub' = 0 /\ cur' = NoLocals /\ log' = log
                       ELSE EndSection(sec, 0)
                  ELSE pc' = first /\ idx' = 1 /\ sub' = 0 /\ cur' = NoLocals /\ log' = log
               /\ UNCHANGED <<files, tbl, conv_seq, msg_seq, now, db_up, model_ids, symbols,
                              truncate, passes, outcome, prev, prev_outcome, fnVars>>

LoadPrices == LoadSection("prices", "prices_symbol")
LoadTrades == LoadSection("trades", "trade_model")
LoadPositions == LoadSection("positions", "pos_model")
LoadAnalytics == LoadSection("analytics", "an_model")
LoadConversations == LoadSection("conversations", "cv_model")

\* importer.py 78-82: the since-inception snapshot is loaded and not imported.
LoadSinceInception ==
    /\ pc = "since"
    /\ LET r == load_json(files.since)
       IN IF ~r.ok THEN Raised(r.exc) /\ UNCHANGED db_up
          ELSE /\ pc' = "trades"
               /\ log' = Append(log, LogEntry("since", "summary only", 0, 0))
               /\ UNCHANGED <<files, tbl, conv_seq, msg_seq, now, db_up, idx, sub, cur,
                              model_ids, symbols, truncate, passes, outcome, prev,
                              prev_outcome, fnVars>>

Recs(sec) == files[sec].recs

\* A loop that upserts the dimension rows of the first trade and conversation
\* only, and goes straight to the insert for the records after it.
NextRecord_SkipUpserts(sec) ==
    IF idx < Len(Recs(sec))
    THEN /\ idx' = idx + 1 /\ sub' = 0 /\ cur' = NoLocals /\ log' = log
         /\ pc' = CASE sec = "prices" -> "prices_symbol"
                    [] sec = "trades" -> "trade_row"
                    [] sec = "positions" -> "pos_model"
                    [] sec = "conversations" -> "cv_row"
    ELSE EndSection(sec, Len(Recs(sec)))

\* The loop body is over for record idx: the next record, or the end of the section.
NextRecord(sec) ==
    IF idx < Len(Recs(sec))
    THEN /\ idx' = idx + 1 /\ sub' = 0 /\ cur' = NoLocals /\ log' = log
         /\ pc' = CASE sec = "prices" -> "prices_symbol"
                    [] sec = "trades" -> "trade_model"
                    [] sec = "positions" -> "pos_model"
                    [] sec = "conversations" -> "cv_model"
    ELSE EndSection(sec, Len(Recs(sec)))

\* str(record.get("model_id", "")).strip()
ModelIdOf(record) == Strip(str(Get(record.model_id, PyStr(<<>>))))

\* ---- prices (importer.py 66-75) ----

\* symbols.add(symbol); upsert_symbol(conn, symbol)
PricesSymbol ==
    /\ pc = "prices_symbol" /\ db_up
    /\ LET symbol == Recs("prices")[idx].sym
       IN /\ symbols' = symbols \cup {symbol}
          /\ tbl' = upsert_symbol(tbl, symbol)
    /\ pc' = "prices_row"
    /\ UNCHANGED <<files, conv_seq, msg_seq, now, db_up, idx, sub, cur, model_ids,
                   truncate, passes, outcome, log, prev, prev_outcome, fnVars>>

\* upsert_price_latest(conn, symbol, float(payload.get("price", 0.0)),
\*                     to_ms(payload.get("timestamp")))
PricesRow ==
    /\ pc = "prices_row" /\ db_up
    /\ LET rec == Recs("prices")[idx]
           payload == rec.payload
           price == float(Get(payload.price, PyFloat(Fin(FALSE, 0, 0, 0))))
           ts == to_ms(Get(payload.timestamp, PyNone))
       IN IF payload.k # "dict" THEN Raised("AttributeError") /\ UNCHANGED db_up
          ELSE IF ~price.ok THEN Raised(price.exc) /\ UNCHANGED db_up
          ELSE IF ~ts.ok THEN Raised(ts.exc) /\ UNCHANGED db_up
          ELSE /\ tbl' = upsert_price_latest(tbl, rec.sym, price.v, ts.v)
               /\ NextRecord("prices")
               /\ UNCHANGED <<files, conv_seq, msg_seq, now, db_up, model_ids, symbols,
                              truncate, passes, outcome, prev, prev_outcome, fnVars>>

\* ---- trades (importer.py 85-101) ----

\* model_id = str(trade.get("model_id", "")).strip(); if model_id: add, upsert_model
TradeModel ==
    /\ pc = "trade_model" /\ db_up
    /\ LET trade == Recs("trades")[idx]
       IN IF trade.k # "dict" THEN Raised("AttributeError") /\ UNCHANGED db_up
          ELSE /\ LET model_id == ModelIdOf(trade)
                  IN IF model_id # <<>>
                     THEN /\ model_ids' = model_ids \cup {model_id}
                          /\ tbl' = upsert_model(tbl, model_id, model_id)
                     ELSE UNCHANGED <<model_ids, tbl>>
               /\ pc' = "trade_symbol"
               /\ UNCHANGED <<files, conv_seq, msg_seq, now, db_up, idx, sub, cur, symbols,
                              truncate, passes, outcome, log, prev, prev_outcome, fnVars>>

\* symbol = str(trade.get("symbol", "")).strip(); if symbol: add, upsert_symbol
TradeSymbol ==
    /\ pc = "trade_symbol" /\ db_up
    /\ LET symbol == Strip(str(Get(Recs("trades")[idx].symbol, PyStr(<<>>))))
       IN IF symbol # <<>>
          THEN /\ symbols' = symbols \cup {symbol}
               /\ tbl' = upsert_symbol(tbl, symbol)
          ELSE UNCHANGED <<symbols, tbl>>
    /\ pc' = "trade_row"
    /\ UNCHANGED <<files, conv_seq, msg_seq, now, db_up, idx, sub, cur, model_ids,
                   truncate, passes, outcome, log, prev, prev_outcome, fnVars>>

\* entry_ms, exit_ms = to_ms_float(...); insert_trade(conn, trade, entry_ms, exit_ms)
TradeRow ==
    /\ pc = "trade_row" /\ db_up
    /\ LET trade == Recs("trades")[idx]
           entry_ms == to_ms_float(Get(trade.entry_time, PyNone))
           exit_ms == to_ms_float(Get(trade.exit_time, PyNone))
       IN IF ~entry_ms.ok THEN Raised(entry_ms.exc) /\ UNCHANGED db_up
          ELSE IF ~exit_ms.ok THEN Raised(exit_ms.exc) /\ UNCHANGED db_up
          ELSE /\ tbl' = insert_trade(tbl, trade, entry_ms.v, exit_ms.v)
               /\ NextRecord("trades")
               /\ UNCHANGED <<files, conv_seq, msg_seq, now, db_up, model_ids, symbols,
                              truncate, passes, outcome, prev, prev_outcome, fnVars>>

\* ---- positions (importer.py 104-119) ----

\* positions = model_data.get("positions", {}) or {}; positions.items()
PositionItems(model_data) ==
    LET p == Get(model_data.positions, PosMap(<<>>))
    IN IF p.k = "map" THEN p.items ELSE <<>>

\* model_id = ...; if model_id: add, upsert_model; then the loop over positions begins
PosModel ==
    /\ pc = "pos_model" /\ db_up
    /\ LET model_data == Recs("positions")[idx]
       IN IF model_data.k # "dict" THEN Raised("AttributeError") /\ UNCHANGED db_up
          ELSE LET model_id == ModelIdOf(model_data)
               IN /\ IF model_id # <<>>
                     THEN /\ model_ids' = model_ids \cup {model_id}
                          /\ tbl' = upsert_model(tbl, model_id, model_id)
                     ELSE UNCHANGED <<model_ids, tbl>>
                  /\ IF PositionItems(model_data) = <<>>
                     THEN NextRecord("positions")
                     ELSE /\ pc' = "pos_symbol" /\ sub' = 1 /\ idx' = idx /\ log' = log
                          /\ cur' = [cur EXCEPT !.model_id = model_id]
                  /\ UNCHANGED <<files, conv_seq, msg_seq, now, db_up, symbols, truncate,
                                 passes, outcome, prev, prev_outcome, fnVars>>

\* symbols.add(symbol); upsert_symbol(conn, symbol)
PosSymbol ==
    /\ pc = "pos_symbol" /\ db_up
    /\ LET symbol == PositionItems(Recs("positions")[idx])[sub].sym
       IN /\ symbols' = symbols \cup {symbol}
          /\ tbl' = upsert_symbol(tbl, symbol)
    /\ pc' = "pos_row"
    /\ UNCHANGED <<files, conv_seq, msg_seq, now, db_up, idx, sub, cur, model_ids,
                   truncate, passes, outcome, log, prev, prev_outcome, fnVars>>

\* entry_ms = to_ms_float(pos.get("entry_time")); insert_position_open(...)
PosRow ==
    /\ pc = "pos_row" /\ db_up
    /\ LET items == PositionItems(Recs("positions")[idx])
           item == items[sub]
           entry_ms == to_ms_float(Get(item.pos.entry_time, PyNone))
       IN IF item.pos.k # "dict" THEN Raised("AttributeError") /\ UNCHANGED db_up
          ELSE IF ~entry_ms.ok THEN Raised(entry_ms.exc) /\ UNCHANGED db_up
          ELSE /\ tbl' = insert_position_open(tbl, cur.model_id, item.sym, item.pos, entry_ms.v)
               /\ IF sub < Len(items)
                  THEN /\ pc' = "pos_symbol" /\ sub' = sub + 1
                       /\ UNCHANGED <<idx, cur, log>>
                  ELSE NextRecord("positions")
               /\ UNCHANGED <<files, conv_seq, msg_seq, now, db_up, model_ids, symbols,
                              truncate, passes, outcome, prev, prev_outcome, fnVars>>

\* ---- analytics (importer.py 122-148) ----

\* First traversal: model_id = str(item.get("model_id", "")).strip(); upsert_model
AnModel ==
    /\ pc = "an_model" /\ db_up
    /\ LET item == Recs("analytics")[idx]
       IN IF item.k # "dict" THEN Raised("AttributeError") /\ UNCHANGED db_up
          ELSE /\ LET model_id == ModelIdOf(item)
                  IN IF model_id # <<>>
                     THEN /\ model_ids' = model_ids \cup {model_id}
                          /\ tbl' = upsert_model(tbl, model_id, model_id)
                     ELSE UNCHANGED <<model_ids, tbl>>
               /\ IF idx < Len(Recs("analytics"))
                  THEN pc' = "an_model" /\ idx' = idx + 1
                  ELSE pc' = "an_raw" /\ idx' = 0
               /\ UNCHANGED <<files, conv_seq, msg_seq, now, db_up, sub, cur, symbols,
                              truncate, passes, outcome, log, prev, prev_outcome, fnVars>>

\* raw_obj = json.loads((data_path / "analytics.json").read_text())
AnRaw ==
    /\ pc = "an_raw"
    /\ LET r == load_json(files.analytics)
       IN IF ~r.ok THEN Raised(r.exc) /\ UNCHANGED db_up
          ELSE /\ IF r.v = <<>>
                  THEN EndSection("analytics", 0)
                  ELSE pc' = "an_blob" /\ idx' = 1 /\ sub' = 0 /\ cur' = NoLocals /\ log' = log
               /\ UNCHANGED <<files, tbl, conv_seq, msg_seq, now, db_up, model_ids, symbols,
                              truncate, passes, outcome, prev, prev_outcome, fnVars>>

\* The model_id and the payload the second traversal finds in a blob (133-143):
\* an object is taken as it is; anything else is decoded, and on any exception
\* the blob is given no model_id.
BlobTarget(blob) ==
    IF blob.k = "dict" THEN [model_id |-> ModelIdOf(blob), payload |-> blob]
    ELSE LET probe == json_loads(blob)
         IN IF probe.ok /\ probe.v.k = "dict"
            THEN [model_id |-> ModelIdOf(probe.v), payload |-> probe.v]
            ELSE [model_id |-> <<>>, payload |-> blob]

\* Second traversal: if model_id: upsert_model_analytics(conn, model_id, blob)
AnBlob ==
    /\ pc = "an_blob" /\ db_up
    /\ LET target == BlobTarget(Recs("analytics")[idx])
       IN IF target.model_id # <<>>
          THEN tbl' = upsert_model_analytics(tbl, target.model_id, target.payload, now)
          ELSE tbl' = tbl
    /\ IF idx < Len(Recs("analytics"))
       THEN pc' = "an_blob" /\ idx' = idx + 1 /\ UNCHANGED <<sub, cur, log>>
       ELSE EndSection("analytics", Len(Recs("analytics")))
    /\ UNCHANGED <<files, conv_seq, msg_seq, now, db_up, model_ids, symbols, truncate,
                   passes, outcome, prev, prev_outcome, fnVars>>

\* ---- conversations (importer.py 151-170) ----

\* convo.get("messages", [])
MessagesOf(convo) ==
    LET m == Get(convo.messages, MsgList(<<>>))
    IN m.items

\* model_id = ...; if model_id: add, upsert_model
CvModel ==
    /\ pc = "cv_model" /\ db_up
    /\ LET convo == Recs("conversations")[idx]
       IN IF convo.k # "dict" THEN Raised("AttributeError") /\ UNCHANGED db_up
          ELSE LET model_id == ModelIdOf(convo)
               IN /\ IF model_id # <<>>
                     THEN /\ model_ids' = model_ids \cup {model_id}
                          /\ tbl' = upsert_model(tbl, model_id, model_id)
                     ELSE UNCHANGED <<model_ids, tbl>>
                  /\ cur' = [cur EXCEPT !.model_id = model_id]
                  /\ pc' = "cv_row"
                  /\ UNCHANGED <<files, conv_seq, msg_seq, now, db_up, idx, sub, symbols,
                                 truncate, passes, outcome, log, prev, prev_outcome, fnVars>>

\* conversation_id = insert_conversation(conn, model_id)
CvRow ==
    /\ pc = "cv_row" /\ db_up
    /\ conv_seq' = conv_seq + 1
    /\ tbl' = insert_conversation(tbl, conv_seq + 1, cur.model_id)
    /\ IF MessagesOf(Recs("conversations")[idx]) = <<>>
       THEN NextRecord("conversations")
       ELSE /\ pc' = "cv_msg" /\ sub' = 1 /\ idx' = idx /\ log' = log
            /\ cur' = [cur EXCEPT !.conversation_id = conv_seq + 1]
    /\ UNCHANGED <<files, msg_seq, now, db_up, model_ids, symbols, truncate, passes,
                   outcome, prev, prev_outcome, fnVars>>

\* ts = to_ms(message.get("timestamp")); insert_conversation_message(...)
CvMsg ==
    /\ pc = "cv_msg" /\ db_up
    /\ LET messages == MessagesOf(Recs("conversations")[idx])
           message == messages[sub]
           ts == to_ms(Get(message.timestamp, PyNone))
           role == Get(message.role, PyNone)
       IN IF message.k # "dict" THEN Raised("AttributeError") /\ UNCHANGED <<db_up, msg_seq>>
          ELSE IF ~ts.ok THEN Raised(ts.exc) /\ UNCHANGED <<db_up, msg_seq>>
          ELSE /\ msg_seq' = msg_seq + 1
               /\ tbl' = insert_conversation_message(tbl, msg_seq + 1, cur.conversation_id,
                            IF Truthy(role) THEN role ELSE PyStr(S_assistant),
                            Get(message.content, PyStr(<<>>)), ts.v)
               /\ IF sub < Len(messages)
                  THEN /\ pc' = "cv_msg" /\ sub' = sub + 1
                       /\ UNCHANGED <<idx, cur, log>>
                  ELSE NextRecord("conversations")
               /\ UNCHANGED <<files, conv_seq, now, db_up, model_ids, symbols, truncate,
                              passes, outcome, prev, prev_outcome, fnVars>>

\* importer.py 172-177: the connection is closed, the totals are logged.
Finish ==
    /\ pc = "finish"
    /\ pc' = "idle"
    /\ outcome' = "ok"
    /\ log' = Append(log, LogEntry("summary", "totals", Cardinality(model_ids),
                                   Cardinality(symbols)))
    /\ UNCHANGED <<files, tbl, conv_seq, msg_seq, now, db_up, idx, sub, cur, model_ids,
                   symbols, truncate, passes, prev, prev_outcome, fnVars>>

\* The database run_import connects to (importer.py 59): empty, or holding the
\* rows an import of older snapshots left: another price for BTC, a price for a
\* symbol the snapshots no longer carry, and trade t1 with other values.
Preloaded ==
    [EmptyTables EXCEPT
        !.models = {[id |-> S_m1, display_name |-> S_m1]},
        !.symbols = {[symbol |-> S_BTC], [symbol |-> S_ETH]},
        !.price_latest = {[symbol |-> S_BTC, price |-> Fin(FALSE, 0, 1, 8),
                           ts_ms |-> PyInt(Fin(FALSE, 0, 5000, 0))],
                          [symbol |-> S_ETH, price |-> Fin(FALSE, 0, 5, 0),
                           ts_ms |-> PyInt(Fin(FALSE, 0, 5000, 0))]},
        !.trades = {[id |-> PyStr(S_t1), model_id |-> PyStr(S_m1), symbol |-> PyStr(S_ETH),
                     side |-> PyStr(S_long), trade_type |-> PyNone, quantity |-> PyNone,
                     entry_ts_ms |-> Zero, exit_ts_ms |-> Zero]}]

InitialDatabases == {EmptyTables, Preloaded}

Init ==
    /\ files \in Dirs
    /\ tbl \in InitialDatabases
    /\ conv_seq = 0 /\ msg_seq = 0
    /\ now = 0
    /\ db_up = TRUE
    /\ pc = "idle"
    /\ idx = 0 /\ sub = 0 /\ cur = NoLocals
    /\ model_ids = {} /\ symbols = {}
    /\ truncate = FALSE
    /\ passes = 0
    /\ outcome = "none"
    /\ log = <<>>
    /\ prev = tbl
    /\ prev_outcome = "none"
    /\ fn_name = "none" /\ fn_arg = PyNone /\ fn_res = Ok(PyNone)

Next ==
    \/ Start
    \/ truncate_tables
    \/ DbFailure
    \/ LoadPrices
    \/ PricesSymbol
    \/ PricesRow
    \/ LoadSinceInception
    \/ LoadTrades
    \/ TradeModel
    \/ TradeSymbol
    \/ TradeRow
    \/ LoadPositions
    \/ PosModel
    \/ PosSymbol
    \/ PosRow
    \/ LoadAnalytics
    \/ AnModel
    \/ AnRaw
    \/ AnBlob
    \/ LoadConversations
    \/ CvModel
    \/ CvRow
    \/ CvMsg
    \/ Finish

Spec == Init /\ [][Next]_vars

(***************************************************************************)
(* The harness of the pure functions: the argument is drawn from           *)
(* SampleValues, and each action applies one function of importer.py to    *)
(* it.  ApplyInsertTrade calls insert_trade on empty tables with a trade   *)
(* whose trade_type and quantity are the argument.                         *)
(***************************************************************************)

InitFn ==
    /\ files = Baseline
    /\ tbl = EmptyTables
    /\ conv_seq = 0 /\ msg_seq = 0
    /\ now = 0
    /\ db_up = TRUE
    /\ pc = "idle"
    /\ idx = 0 /\ sub = 0 /\ cur = NoLocals
    /\ model_ids = {} /\ symbols = {}
    /\ truncate = FALSE
    /\ passes = 0
    /\ outcome = "none"
    /\ log = <<>>
    /\ prev = EmptyTables
    /\ prev_outcome = "none"
    /\ fn_name = "none" /\ fn_arg \in SampleValues /\ fn_res = Ok(PyNone)

Apply(name, result) ==
    /\ fn_name # name
    /\ fn_name' = name
    /\ fn_res' = result
    /\ tbl' = EmptyTables
    /\ UNCHANGED <<files, conv_seq, msg_seq, now, db_up, pc, idx, sub, cur, model_ids,
                   symbols, truncate, passes, outcome, log, prev, prev_outcome, fn_arg>>

ApplyNullIfEmpty == Apply("null_if_empty", Ok(null_if_empty(fn_arg)))
ApplyNullFloat == Apply("null_float", null_float(fn_arg))
ApplyToMs == Apply("to_ms", to_ms(fn_arg))
ApplyToMsFloat == Apply("to_ms_float", to_ms_float(fn_arg))

ApplyInsertTrade ==
    /\ fn_name # "insert_trade"
    /\ fn_name' = "insert_trade"
    /\ fn_res' = Ok(PyNone)
    /\ tbl' = insert_trade(EmptyTables,
                  TradeRec(PyStr(S_t1), PyStr(S_m1), PyStr(S_BTC), fn_arg, fn_arg, PyNone, PyNone),
                  Zero, Zero)
    /\ UNCHANGED <<files, conv_seq, msg_seq, now, db_up, pc, idx, sub, cur, model_ids,
                   symbols, truncate, passes, outcome, log, prev, prev_outcome, fn_arg>>

NextFn ==
    \/ ApplyNullIfEmpty
    \/ ApplyNullFloat
    \/ ApplyToMs
    \/ ApplyToMsFloat
    \/ ApplyInsertTrade

SpecFn == InitFn /\ [][NextFn]_vars

(***************************************************************************)
(* PROPERTIES OF run_import (checked under Spec)                           *)
(***************************************************************************)

\* The tables the importer keys by a natural or synthetic key.
KeyedTables ==
    {"models", "symbols", "price_latest", "trades", "positions", "model_analytics"}

\* A pass without truncate has just ended well, and so had the pass before it.
SecondPassDone ==
    pc = "idle" /\ passes >= 2 /\ ~truncate /\ outcome = "ok" /\ prev_outcome = "ok"

\* A model_analytics row without the column the database clock fills.
AnalyticsContent(rows) == {[model_id |-> r.model_id, payload |-> r.payload] : r \in rows}

\* C1 (as stated): after a second pass without truncate over unchanged snapshots,
\* each of models, symbols, price_latest, trades, positions and model_analytics
\* holds exactly the rows it held after the first pass.
C1_SecondPassSameRowSets ==
    SecondPassDone => \A t \in KeyedTables : tbl[t] = prev[t]

\* C1 (amended): after a second pass without truncate over unchanged snapshots,
\* models, symbols, price_latest, trades and positions hold exactly the rows they
\* held after the first pass, and model_analytics holds as many rows, with the
\* same model_id and payload; only the updated_at of its rows is refreshed.
C1_SecondPassSameRowsButStamp ==
    SecondPassDone =>
        /\ \A t \in KeyedTables \ {"model_analytics"} : tbl[t] = prev[t]
        /\ \A t \in KeyedTables : Cardinality(tbl[t]) = Cardinality(prev[t])
        /\ AnalyticsContent(tbl.model_analytics) = AnalyticsContent(prev.model_analytics)

\* C1 witness: a second pass has ended well with every keyed table populated and
\* the model_analytics rows restamped.
C1_Witness ==
    /\ SecondPassDone
    /\ \A t \in KeyedTables : tbl[t] # {}
    /\ tbl.model_analytics # prev.model_analytics

\* Number of entries of the conversations snapshot, and of messages in them
\* (0 when the snapshot is absent).
ConvoEntries ==
    IF files.conversations.st = "ok" THEN files.conversations.recs ELSE <<>>

RECURSIVE MessageCount(_)
MessageCount(convos) ==
    IF convos = <<>> THEN 0
    ELSE (IF "messages" \in DOMAIN Head(convos) /\ Head(convos).messages.k = "list"
          THEN Len(Head(convos).messages.items) ELSE 0)
         + MessageCount(Tail(convos))

\* C2: a pass without truncate that ends well has added one conversations row per
\* entry of the conversations snapshot and one conversation_messages row per
\* message, whatever the tables held before; two such passes from empty tables
\* leave twice the rows of one.
C2_ConversationsAppendEveryPass ==
    /\ (pc = "idle" /\ outcome = "ok" /\ ~truncate) =>
          /\ Cardinality(tbl.conversations)
                = Cardinality(prev.conversations) + Len(ConvoEntries)
          /\ Cardinality(tbl.conversation_messages)
                = Cardinality(prev.conversation_messages) + MessageCount(ConvoEntries)
    /\ (SecondPassDone /\ passes = 2) =>
          /\ Cardinality(tbl.conversations) = 2 * Len(ConvoEntries)
          /\ Cardinality(tbl.conversation_messages) = 2 * MessageCount(ConvoEntries)

\* C2 witness: two passes over a snapshot with conversations and messages have
\* ended well, and both tables hold twice the snapshot's entries.
C2_Witness ==
    /\ SecondPassDone /\ passes = 2
    /\ Len(ConvoEntries) >= 1 /\ MessageCount(ConvoEntries) >= 1
    /\ Cardinality(tbl.conversations) = 2 * Len(ConvoEntries)
    /\ Cardinality(tbl.conversation_messages) = 2 * MessageCount(ConvoEntries)

\* C3 (as stated): in every reachable state each trades, positions,
\* model_analytics and conversations row references the key of an existing models
\* row, and each trades and positions row the key of an existing symbols row.
C3_ReferencesExist ==
    /\ \A r \in tbl.trades :
          /\ \E m \in tbl.models : PyStr(m.id) = r.model_id
          /\ \E y \in tbl.symbols : PyStr(y.symbol) = r.symbol
    /\ \A r \in tbl.positions :
          /\ \E m \in tbl.models : m.id = r.model_id
          /\ \E y \in tbl.symbols : y.symbol = r.symbol
    /\ \A r \in tbl.model_analytics : \E m \in tbl.models : m.id = r.model_id
    /\ \A r \in tbl.conversations : \E m \in tbl.models : m.id = r.model_id

\* The snapshots that are missing from the data directory.
AbsentSections == {x \in SectionSet : files[x].st = "absent"}

\* Every snapshot that is present holds its baseline (well-formed) document.
OnlyAbsences == \A x \in SectionSet \ AbsentSections : files[x] = Baseline[x]

\* The current pass has logged event ev for section x.
Logged(x, ev) == \E i \in 1..Len(log) : log[i].sec = x /\ log[i].ev = ev

\* C4: a missing snapshot never fails a pass.  FileNotFoundError never leaves
\* run_import; when nothing but absences distinguishes the directory from a
\* well-formed one, a pass on a working database never ends in an exception; a
\* pass that ends well has logged a skip for exactly the missing snapshots and
\* has run every other section to its end; and a section whose snapshot is
\* missing changes no table and hands over to the next section.
C4_MissingSnapshotsAreSkipped ==
    /\ [](/\ outcome # "FileNotFoundError"
          /\ (OnlyAbsences /\ db_up) => outcome \in {"none", "running", "ok"}
          /\ (pc = "idle" /\ outcome = "ok") =>
                \A x \in SectionSet :
                    /\ Logged(x, "skip") <=> x \in AbsentSections
                    /\ (Logged(x, "imported") \/ Logged(x, "summary only"))
                            <=> x \notin AbsentSections)
    /\ [][SectionOf(pc) \in AbsentSections =>
            /\ tbl' = tbl
            /\ pc' = AfterSection(SectionOf(pc))]_vars

\* C4 witness: a pass has ended well although the analytics and trades snapshots
\* are missing: nothing was written for them, and the sections around them ran.
C4_Witness ==
    /\ pc = "idle" /\ outcome = "ok" /\ passes = 1
    /\ AbsentSections = {"trades", "analytics"}
    /\ tbl.trades = {} /\ tbl.model_analytics = {}
    /\ tbl.price_latest # {} /\ tbl.positions # {} /\ tbl.conversations # {}
    /\ Logged("analytics", "skip") /\ Logged("conversations", "imported")

\* The statements of the sections that follow section x, and the end of the pass.
LaterPcs(x) ==
    {p \in {"prices", "prices_symbol", "prices_row", "since", "trades", "trade_model",
            "trade_symbol", "trade_row", "positions", "pos_model", "pos_symbol", "pos_row",
            "analytics", "an_model", "an_raw", "an_blob", "conversations", "cv_model",
            "cv_row", "cv_msg"} :
        \E i, j \in 1..Len(Sections) :
            Sections[i] = x /\ Sections[j] = SectionOf(p) /\ i < j}
    \cup {"finish"}

\* Whether entry i of snapshot x is not a JSON object where the importer expects one.
BadShape(x, i) ==
    IF x = "prices" THEN files[x].recs[i].payload.k # "dict"
    ELSE files[x].recs[i].k # "dict"

\* C5: a failure other than a missing snapshot ends the pass.  A snapshot that is
\* not JSON, or an entry that is not an object, is never passed: the section does
\* not go on to a later entry, no later section is entered, and the pass does not
\* end well; an analytics entry that is no object, decodable or not, is never
\* reached by the raw traversal.  Once a database statement has failed the pass
\* is over, and so it is whenever an exception is the outcome.
C5_OtherFailuresAbortThePass ==
    /\ \A x \in SectionSet :
          /\ files[x].st = "malformed" =>
                /\ pc \notin LaterPcs(x)
                /\ SectionOf(pc) = x => pc = x
                /\ passes >= 1 => outcome # "ok"
          /\ files[x].st = "ok" =>
                \A i \in 1..Len(files[x].recs) :
                    BadShape(x, i) =>
                        /\ pc \notin LaterPcs(x)
                        /\ SectionOf(pc) = x => idx <= i
                        /\ pc \notin {"an_raw", "an_blob"}
                        /\ passes >= 1 => outcome # "ok"
    /\ ~db_up => pc = "idle" /\ outcome = "OperationalError"
    /\ outcome \notin {"none", "running", "ok"} => pc = "idle"

\* C5 witness: the second entry of the trades snapshot is not an object: the pass
\* has ended with AttributeError after writing the first trade, and nothing of
\* positions, analytics or conversations was written.
C5_Witness ==
    /\ pc = "idle" /\ outcome = "AttributeError" /\ passes = 1
    /\ files.trades.st = "ok" /\ Len(files.trades.recs) = 2 /\ BadShape("trades", 2)
    /\ tbl.trades # {}
    /\ tbl.positions = {} /\ tbl.model_analytics = {} /\ tbl.conversations = {}

\* The outcomes with which a pass has failed.
Failed(o) == o \notin {"none", "running", "ok"}

\* C6: the step with which a pass fails leaves every table as the writes before
\* the failure made it, and a failed pass without truncate has lost no row: no
\* table holds fewer rows than when the pass began.
C6_NoRollbackOnFailure ==
    /\ [][(pc # "idle" /\ pc' = "idle" /\ Failed(outcome')) => tbl' = tbl]_vars
    /\ []((pc = "idle" /\ Failed(outcome) /\ ~truncate) =>
            \A t \in Tables : Cardinality(tbl[t]) >= Cardinality(prev[t]))

\* C6 witness: the database failed partway through a pass without truncate; the
\* prices and trades written before the failure are in the tables.
C6_Witness ==
    /\ pc = "idle" /\ outcome = "OperationalError" /\ ~truncate /\ passes = 1
    /\ tbl.price_latest # {} /\ tbl.trades # {}
    /\ tbl.conversations = {}
    /\ tbl # prev

(***************************************************************************)
(* PROPERTIES OF THE NORMALISERS (checked under SpecFn)                    *)
(***************************************************************************)

\* The sample strings that are decimal literals, each with the number it denotes.
NumericStrings ==
    {<<S_0, Fin(FALSE, 0, 0, 0)>>, <<S_0p0, Fin(FALSE, 0, 0, 0)>>,
     <<S_5, Fin(FALSE, 0, 5, 0)>>, <<S_5pad, Fin(FALSE, 0, 5, 0)>>,
     <<S_m5, Fin(TRUE, 0, 5, 0)>>, <<S_1p5, Fin(FALSE, 0, 1, 8)>>,
     <<S_p1875, Fin(FALSE, 0, 0, 3)>>, <<S_17e8, Fin(FALSE, 1700, 0, 0)>>,
     <<S_1e12p75, Fin(FALSE, 1000000, 0, 12)>>}

\* The sample strings float() accepts: the decimal literals, "nan" and "inf".
FloatLiterals == NumericStrings \cup {<<S_nan, NaN>>, <<S_inf, Inf(FALSE)>>}

Denoted(table, text) == (CHOOSE p \in table : p[1] = text)[2]

\* A finite numeric or numeric-string timestamp, and the number t it stands for.
IsNumericTimestamp(value) ==
    \/ value.k \in {"int", "float"} /\ value.v.c = "fin"
    \/ value.k = "str" /\ \E p \in NumericStrings : p[1] = value.s

TimestampNumber(value) ==
    IF value.k = "str" THEN Denoted(NumericStrings, value.s) ELSE value.v

\* t < 1e12, for a finite t.
BelowThreshold(t) == t.neg \/ t.hi < 1000000

\* An integer of two limbs from a sign, a count of millions and a rest that may
\* exceed a million; zero has no sign.
WholeNumber(neg, millions, rest) ==
    LET hi == millions + (rest \div 1000000)
        lo == rest % 1000000
    IN Fin(neg /\ (hi # 0 \/ lo # 0), hi, lo, 0)

\* t truncated toward zero, and t * 1000 truncated toward zero.
Truncated(t) == WholeNumber(t.neg, t.hi, t.lo)
ThousandfoldTruncated(t) ==
    WholeNumber(t.neg, t.hi * 1000, t.lo * 1000 + ((t.fr * 1000) \div 16))

\* round(): to the nearest integer, a tie to the even one.  x counts sixteenths
\* beyond the whole number w.
RoundUp(w, x) == (x % 16 > 8) \/ (x % 16 = 8 /\ (w + (x \div 16)) % 2 = 1)
Rounded(t) == WholeNumber(t.neg, t.hi, t.lo + (IF RoundUp(t.lo, t.fr) THEN 1 ELSE 0))
ThousandfoldRounded(t) ==
    LET x == t.fr * 1000
    IN WholeNumber(t.neg, t.hi * 1000,
                   t.lo * 1000 + (x \div 16) + (IF RoundUp(t.lo * 1000, x) THEN 1 ELSE 0))

\* C7 (as stated): for every numeric or numeric-string timestamp t, to_ms(t) is
\* round(t * 1000) when t < 1e12 and round(t) when t >= 1e12.
C7_ToMsRounds ==
    (fn_name = "to_ms" /\ IsNumericTimestamp(fn_arg)) =>
        LET t == TimestampNumber(fn_arg)
        IN fn_res = Ok(PyInt(IF BelowThreshold(t) THEN ThousandfoldRounded(t)
                                                  ELSE Rounded(t)))

\* C7 (amended): for every finite numeric or numeric-string timestamp t, to_ms(t)
\* is t * 1000 truncated toward zero when t < 1e12 and t truncated toward zero
\* when t >= 1e12.
C7_ToMsTruncates ==
    (fn_name = "to_ms" /\ IsNumericTimestamp(fn_arg)) =>
        LET t == TimestampNumber(fn_arg)
        IN fn_res = Ok(PyInt(IF BelowThreshold(t) THEN ThousandfoldTruncated(t)
                                                  ELSE Truncated(t)))

\* C7 witness: to_ms(0.1875) has returned 187, where rounding gives 188.
C7_Witness ==
    /\ fn_name = "to_ms"
    /\ fn_arg = PyFloat(Fin(FALSE, 0, 0, 3))
    /\ fn_res = Ok(PyInt(Fin(FALSE, 0, 187, 0)))
    /\ ThousandfoldRounded(fn_arg.v) = Fin(FALSE, 0, 188, 0)

\* C8 (as stated): to_ms, to_ms_float and null_float never raise, whatever the
\* input value.
C8_NormalisersNeverRaise ==
    fn_name \in {"to_ms", "to_ms_float", "null_float"} => fn_res.ok

\* Whether float(value) succeeds, and the float it returns.
Parseable(value) ==
    \/ value.k \in {"int", "float", "bool"}
    \/ value.k = "str" /\ \E p \in FloatLiterals : p[1] = value.s

ParsedFloat(value) ==
    CASE value.k = "float" -> value.v
      [] value.k = "int" -> FloatOfInt(value.v)
      [] value.k = "bool" -> Fin(FALSE, 0, IF value.b THEN 1 ELSE 0, 0)
      [] value.k = "str" -> Denoted(FloatLiterals, value.s)

IsZero(x) == x.c = "fin" /\ x.hi = 0 /\ x.lo = 0 /\ x.fr = 0

\* C9: null_float returns None for every input that does not parse as a number
\* and for every input whose parsed value is zero, and the parsed float for every
\* other input; it never returns the number 0.
C9_NullFloatZeroIsNull ==
    fn_name = "null_float" =>
        /\ fn_res = Ok(IF Parseable(fn_arg) /\ ~IsZero(ParsedFloat(fn_arg))
                       THEN PyFloat(ParsedFloat(fn_arg)) ELSE PyNone)
        /\ fn_res.v.k \in {"int", "float"} => ~IsZero(fn_res.v.v)

\* C9 witness: null_float("0") has returned None.
C9_Witness ==
    fn_name = "null_float" /\ fn_arg = PyStr(S_0) /\ fn_res = Ok(PyNone)

\* A string that is empty or holds whitespace only.
IsBlank(value) ==
    value.k = "str" /\ \A i \in 1..Len(value.s) : value.s[i] \in {" ", "\t", "\n"}

\* C10: null_if_empty returns None for every empty or whitespace-only string and
\* its argument for every other value; the trade_type insert_trade stores is None
\* for a blank trade_type and the given value otherwise, never a blank string.
C10_BlankBecomesNull ==
    /\ fn_name = "null_if_empty" =>
          fn_res = Ok(IF IsBlank(fn_arg) THEN PyNone ELSE fn_arg)
    /\ fn_name = "insert_trade" =>
          /\ Cardinality(tbl.trades) = 1
          /\ \A r \in tbl.trades :
                /\ r.trade_type = (IF IsBlank(fn_arg) THEN PyNone ELSE fn_arg)
                /\ ~IsBlank(r.trade_type)

\* C10 witness: a trade whose trade_type is whitespace has been stored with a
\* null trade_type.
C10_Witness ==
    /\ fn_name = "insert_trade" /\ fn_arg = PyStr(S_tab)
    /\ \E r \in tbl.trades : r.trade_type = PyNone

(***************************************************************************)
(* FURTHER PROPERTIES OF run_import (checked under Spec)                   *)
(***************************************************************************)

\* The decimal text of an integer of two limbs, written digit by digit.
DecimalChars == <<"0", "1", "2", "3", "4", "5", "6", "7", "8", "9">>
Block(n, w) == [i \in 1..w |-> DecimalChars[((n \div (10 ^ (w - i))) % 10) + 1]]
Width(n) == CHOOSE w \in 1..9 : n < 10 ^ w /\ (w = 1 \/ n >= 10 ^ (w - 1))
DecimalText(n) ==
    (IF n.neg THEN <<"-">> ELSE <<>>)
    \o (IF n.hi = 0 THEN Block(n.lo, Width(n.lo))
        ELSE Block(n.hi, Width(n.hi)) \o Block(n.lo, 6))

\* C11: every positions row has the id model_id ":" symbol ":" entry timestamp in
\* milliseconds, side "long" and status "open"; no two rows share an id, and a
\* second pass over the same snapshot leaves the positions rows as they were.
C11_PositionKeyIsSynthetic ==
    /\ \A r \in tbl.positions :
          /\ r.id = r.model_id \o <<":">> \o r.symbol \o <<":">>
                        \o DecimalText(r.entry_ts_ms.v)
          /\ r.side = <<"l", "o", "n", "g">>
          /\ r.status = <<"o", "p", "e", "n">>
    /\ \A r, q \in tbl.positions : r.id = q.id => r = q
    /\ SecondPassDone => tbl.positions = prev.positions

\* C11 witness: model m1, symbol BTC, entry_time 1700000000 has been imported
\* twice and is the one row "m1:BTC:1700000000000".
C11_Witness ==
    /\ SecondPassDone
    /\ files.positions = Baseline.positions
    /\ Cardinality(tbl.positions) = 1
    /\ \E r \in tbl.positions :
          r.id = <<"m", "1", ":", "B", "T", "C", ":",
                   "1", "7", "0", "0", "0", "0", "0", "0", "0", "0", "0", "0", "0">>

\* The snapshots other than x hold their baseline documents or are missing.
OthersWellFormed(x) ==
    \A y \in SectionSet \ {x} : files[y] = Baseline[y] \/ files[y].st = "absent"

\* C12 (as stated): when a pass over well-formed snapshots on a working database
\* is over, every analytics entry given as a JSON-encoded string of an object
\* with a model_id is stored in model_analytics under that model_id with the
\* payload the native object gives, and the pass has ended well.
C12_JsonStringEntryStoredLikeObject ==
    (pc = "idle" /\ passes >= 1 /\ db_up /\ files.analytics.st = "ok"
        /\ OthersWellFormed("analytics")) =>
        \A i \in 1..Len(files.analytics.recs) :
            LET entry == files.analytics.recs[i]
            IN entry.k = "jsonstr" =>
                /\ outcome = "ok"
                /\ \E r \in tbl.model_analytics :
                      /\ PyStr(r.model_id) = entry.obj.model_id
                      /\ r.payload = [k |-> "jsonstr", obj |-> entry.obj, style |-> "default"]

\* C13: a trades row, once written, is never changed or removed by a later
\* insert_trade call or pass (only the truncate step removes rows): every step
\* keeps every trades row as it is, and a row it adds has an id no row had; no
\* two trades rows share an id.
C13_TradeRowsAreImmutable ==
    /\ [][pc # "truncate" =>
            /\ \A r \in tbl.trades : r \in tbl'.trades
            /\ \A r \in tbl'.trades \ tbl.trades : \A q \in tbl.trades : q.id # r.id]_vars
    /\ [](\A r, q \in tbl.trades : r.id = q.id => r = q)

\* C13 witness: the trades snapshot carries id t1 twice with different values and
\* has been imported twice; the one row of t1 holds the values of its first
\* occurrence.
C13_Witness ==
    /\ SecondPassDone
    /\ files.trades.st = "ok" /\ Len(files.trades.recs) = 2
    /\ files.trades.recs[1].id = files.trades.recs[2].id
    /\ files.trades.recs[1].model_id # files.trades.recs[2].model_id
    /\ Cardinality(tbl.trades) = 1
    /\ \E r \in tbl.trades :
          r.id = files.trades.recs[1].id /\ r.model_id = files.trades.recs[1].model_id

\* The milliseconds a snapshot timestamp stands for: a number is scaled as C7
\* says, the text 1970-01-02T00:00:01Z is 86401000, a missing timestamp is 0.
ExpectedMs(timestamp) ==
    IF IsNumericTimestamp(timestamp)
    THEN PyInt(IF BelowThreshold(TimestampNumber(timestamp))
               THEN ThousandfoldTruncated(TimestampNumber(timestamp))
               ELSE Truncated(TimestampNumber(timestamp)))
    ELSE IF timestamp = PyStr(S_isoZ) THEN PyInt(Fin(FALSE, 86, 401000, 0))
    ELSE PyInt(Fin(FALSE, 0, 0, 0))

\* The price a snapshot payload stands for (0.0 when it has none).
ExpectedPrice(payload) ==
    IF payload.price.k = "absent" THEN Fin(FALSE, 0, 0, 0) ELSE ParsedFloat(payload.price)

\* C14: from the end of the prices section to the end of the pass, price_latest
\* holds for every symbol key of the price snapshot exactly one row, and the row
\* carries the snapshot's price and its timestamp in milliseconds, whatever the
\* table held for the symbol before the pass.
C14_PriceLatestOverwritten ==
    Logged("prices", "imported") =>
        \A i \in 1..Len(files.prices.recs) :
            LET entry == files.prices.recs[i]
                rows == {r \in tbl.price_latest : r.symbol = entry.sym}
            IN /\ Cardinality(rows) = 1
               /\ \A r \in rows :
                     /\ r.price = ExpectedPrice(entry.payload)
                     /\ r.ts_ms = ExpectedMs(IF entry.payload.timestamp.k = "absent"
                                             THEN PyNone ELSE entry.payload.timestamp)

\* C14 witness: the database held another price for BTC before the pass; after
\* the prices section the BTC row carries the snapshot's price 5.0 and timestamp
\* 1700000000000, and the row of ETH, which the snapshot lacks, is still there.
C14_Witness ==
    /\ Logged("prices", "imported") /\ ~truncate
    /\ [symbol |-> S_BTC, price |-> Fin(FALSE, 0, 1, 8),
        ts_ms |-> PyInt(Fin(FALSE, 0, 5000, 0))] \in prev.price_latest
    /\ [symbol |-> S_BTC, price |-> Fin(FALSE, 0, 5, 0),
        ts_ms |-> PyInt(Fin(FALSE, 1700000, 0, 0))] \in tbl.price_latest
    /\ \E r \in tbl.price_latest : r.symbol = S_ETH
    /\ Cardinality(tbl.price_latest) = 2

\* The key of a row of table t.
KeyOf(t, r) ==
    CASE t = "models" -> r.id
      [] t \in {"symbols", "price_latest"} -> r.symbol
      [] t = "model_analytics" -> r.model_id
      [] OTHER -> r.id

Keys(t, rows) == {KeyOf(t, r) : r \in rows}

\* The symbol keys of the price snapshot and the ids of the trades snapshot.
SnapshotPriceKeys ==
    IF files.prices.st = "ok"
    THEN {files.prices.recs[i].sym : i \in 1..Len(files.prices.recs)} ELSE {}

SnapshotTradeIds ==
    IF files.trades.st = "ok"
    THEN {files.trades.recs[i].id : i \in 1..Len(files.trades.recs)} ELSE {}

\* C15: with truncate, every table is empty when the first section begins, and a
\* pass that ends well leaves only what the snapshots give: prices of the
\* snapshot's symbols, trades of the snapshot's ids, none of the rows the
\* database held before, and conversations numbered from 1.  Without truncate no
\* step removes a row: every key a table holds it still holds after the step.
C15_TruncateClearsElseNothingDeleted ==
    /\ []((truncate /\ pc = "prices") => tbl = EmptyTables)
    /\ []((truncate /\ pc = "idle" /\ outcome = "ok") =>
            /\ Keys("price_latest", tbl.price_latest) = SnapshotPriceKeys
            /\ Keys("trades", tbl.trades) = SnapshotTradeIds
            /\ tbl.trades \cap Preloaded.trades = {}
            /\ tbl.price_latest \cap Preloaded.price_latest = {}
            /\ Keys("conversations", tbl.conversations) = 1..Len(ConvoEntries)
            /\ Keys("conversation_messages", tbl.conversation_messages)
                   = 1..MessageCount(ConvoEntries))
    /\ [][pc # "truncate" => \A t \in Tables : Keys(t, tbl[t]) \subseteq Keys(t, tbl'[t])]_vars
    /\ [][pc = "truncate" => (tbl' = EmptyTables \/ pc' = "idle")]_vars

\* C15 witness: a pass with truncate on a database that held older rows has
\* ended well; the older trade and prices are gone and the snapshot's are there.
C15_Witness ==
    /\ truncate /\ pc = "idle" /\ outcome = "ok"
    /\ prev.trades = Preloaded.trades /\ prev.price_latest = Preloaded.price_latest
    /\ tbl.trades # {} /\ tbl.trades \cap prev.trades = {}
    /\ Keys("price_latest", tbl.price_latest) = {S_BTC}
    /\ tbl.conversations # {}

\* The model row (symbol row) with this key has been upserted by the pass.
ModelUpserted(m) == m \in model_ids /\ \E r \in tbl.models : r.id = m
SymbolUpserted(raw) == raw \in symbols /\ \E r \in tbl.symbols : r.symbol = Strip(raw)

\* The record the loop is at, and the keys it references.
Current == Recs(SectionOf(pc))[idx]
SymbolOf(record) == Strip(str(Get(record.symbol, PyStr(<<>>))))
CurrentPosition == PositionItems(Current)[sub]

\* C19: for each trade, position, analytics blob and conversation, the upsert of
\* the model (and symbol) row it references is executed for that record before
\* the dependent row of the record is inserted: the insert statement of a
\* record is reached only from the upsert statements of the same record (for
\* analytics, from the traversal that upserts the model of every entry), the
\* referenced rows are there when it is reached, and the dependent tables are
\* written by the insert statements only.
C19_DimensionUpsertPrecedesInsert ==
    /\ [](/\ pc = "trade_row" =>
                /\ Current.k = "dict"
                /\ ModelIdOf(Current) # <<>> => ModelUpserted(ModelIdOf(Current))
                /\ SymbolOf(Current) # <<>> => SymbolUpserted(SymbolOf(Current))
          /\ pc = "pos_row" =>
                /\ Current.k = "dict"
                /\ cur.model_id = ModelIdOf(Current)
                /\ cur.model_id # <<>> => ModelUpserted(cur.model_id)
                /\ SymbolUpserted(CurrentPosition.sym)
          /\ pc = "cv_row" =>
                /\ Current.k = "dict"
                /\ cur.model_id = ModelIdOf(Current)
                /\ cur.model_id # <<>> => ModelUpserted(cur.model_id)
          /\ pc = "an_blob" =>
                \A i \in 1..Len(Recs("analytics")) :
                    BlobTarget(Recs("analytics")[i]).model_id # <<>> =>
                        ModelUpserted(BlobTarget(Recs("analytics")[i]).model_id))
    /\ [][/\ pc' = "trade_row" => pc = "trade_symbol" /\ idx' = idx
          /\ pc' = "trade_symbol" => pc = "trade_model" /\ idx' = idx
          /\ pc' = "pos_row" => pc = "pos_symbol" /\ idx' = idx /\ sub' = sub
          /\ pc' = "pos_symbol" =>
                /\ idx' = idx
                /\ \/ pc = "pos_model" /\ sub' = 1
                   \/ pc = "pos_row" /\ sub' = sub + 1
          /\ pc' = "cv_row" => pc = "cv_model" /\ idx' = idx
          /\ pc' = "an_blob" =>
                \/ pc = "an_raw" /\ idx' = 1
                \/ pc = "an_blob" /\ idx' = idx + 1
          /\ pc' = "an_raw" =>
                \/ pc = "an_model" /\ idx = Len(Recs("analytics"))
                \/ pc = "analytics" /\ Recs("analytics") = <<>>
          /\ tbl'.trades # tbl.trades => pc \in {"trade_row", "truncate"}
          /\ tbl'.positions # tbl.positions => pc \in {"pos_row", "truncate"}
          /\ tbl'.model_analytics # tbl.model_analytics => pc \in {"an_blob", "truncate"}
          /\ tbl'.conversations # tbl.conversations => pc \in {"cv_row", "truncate"}]_vars

\* The second trade of a snapshot is about to be inserted; its model and symbol
\* are not those of the first.
C19_Witness ==
    /\ pc = "trade_row" /\ idx = 2
    /\ ModelIdOf(Current) = S_m2 /\ ModelIdOf(Recs("trades")[1]) = S_m1
    /\ ModelUpserted(S_m2) /\ SymbolUpserted(S_ETH)

\* The place of a statement's section in the pass.
Rank(p) ==
    CASE SectionOf(p) = "prices" -> 1
      [] SectionOf(p) = "since" -> 2
      [] SectionOf(p) = "trades" -> 3
      [] SectionOf(p) = "positions" -> 4
      [] SectionOf(p) = "analytics" -> 5
      [] SectionOf(p) = "conversations" -> 6
      [] p = "finish" -> 7
      [] OTHER -> 0

\* The tables a section writes.
TablesOf(sec) ==
    CASE sec = "prices" -> {"symbols", "price_latest"}
      [] sec = "trades" -> {"models", "symbols", "trades"}
      [] sec = "positions" -> {"models", "symbols", "positions"}
      [] sec = "analytics" -> {"models", "model_analytics"}
      [] sec = "conversations" -> {"models", "conversations", "conversation_messages"}
      [] OTHER -> {}

\* C20: within a pass the sections come in the order prices, since-inception,
\* trades, positions, analytics, conversations: a step stays in its section,
\* goes to the first statement of the next one or ends the pass; a step of a
\* section writes the tables of that section only, so no later section writes
\* before an earlier one has written for the last time; the since-inception
\* step changes no table and no sequence.
C20_SectionsWriteInFixedOrder ==
    [][/\ (pc # "idle" /\ pc' # "idle") =>
              /\ Rank(pc') >= Rank(pc)
              /\ Rank(pc') > Rank(pc) =>
                     /\ Rank(pc') = Rank(pc) + 1
                     /\ pc' \in {"prices", "since", "trades", "positions", "analytics",
                                 "conversations", "finish"}
       /\ \A t \in DOMAIN tbl :
              tbl'[t] # tbl[t] => pc = "truncate" \/ t \in TablesOf(SectionOf(pc))
       /\ conv_seq' # conv_seq => pc = "truncate" \/ SectionOf(pc) = "conversations"
       /\ msg_seq' # msg_seq => pc = "truncate" \/ SectionOf(pc) = "conversations"
       /\ pc = "since" => tbl' = tbl /\ conv_seq' = conv_seq /\ msg_seq' = msg_seq]_vars

\* A pass on an empty database has reached the conversations after every
\* earlier section wrote and the since-inception step logged its line.
C20_Witness ==
    /\ pc = "cv_row" /\ prev = EmptyTables
    /\ Logged("since", "summary only")
    /\ tbl.price_latest # {} /\ tbl.trades # {} /\ tbl.positions # {}
    /\ tbl.model_analytics # {} /\ tbl.conversations = {}

\* The message the inner loop of the conversations section is at.
CurrentMessage == MessagesOf(Current)[sub]

\* The role a message is stored with: its own, or "assistant" if it has none or
\* an empty one.
StoredRole(message) ==
    IF message.role.k = "absent" \/ message.role.k = "none" \/ message.role = PyStr(S_empty)
    THEN PyStr(S_assistant)
    ELSE message.role

\* C21: every conversation_messages row a pass inserts references the
\* conversations row the same pass created for the entry that holds the message:
\* the row is written by the message statement of that entry, its
\* conversation_id is the id the entry's insert_conversation returned, which is
\* the newest conversations row, carries the entry's model_id and (without
\* truncate) did not exist when the pass started; the message statement of an
\* entry is reached only from the insert_conversation of the same entry.  A
\* message without a role or with an empty one is stored with role "assistant".
C21_MessagesReferenceTheirConversation ==
    /\ [](\A r \in tbl.conversation_messages :
              \E c \in tbl.conversations : c.id = r.conversation_id)
    /\ [][/\ tbl'.conversation_messages # tbl.conversation_messages /\ pc # "truncate" =>
              /\ pc = "cv_msg"
              /\ \E r \in tbl'.conversation_messages :
                    /\ tbl'.conversation_messages = tbl.conversation_messages \cup {r}
                    /\ r \notin tbl.conversation_messages
                    /\ r.conversation_id = cur.conversation_id
                    /\ r.conversation_id = conv_seq
                    /\ [id |-> conv_seq, model_id |-> ModelIdOf(Current)] \in tbl.conversations
                    /\ ~truncate => \A c \in prev.conversations : c.id # r.conversation_id
                    /\ r.role = StoredRole(CurrentMessage)
                    /\ r.content = Get(CurrentMessage.content, PyStr(<<>>))
          /\ pc' = "cv_msg" =>
              \/ /\ pc = "cv_row" /\ idx' = idx /\ sub' = 1
                 /\ conv_seq' = conv_seq + 1
                 /\ cur'.conversation_id = conv_seq'
                 /\ tbl'.conversations = tbl.conversations
                        \cup {[id |-> conv_seq', model_id |-> ModelIdOf(Current)]}
                 /\ \A c \in tbl.conversations : c.id # conv_seq'
              \/ /\ pc = "cv_msg" /\ idx' = idx /\ sub' = sub + 1
                 /\ cur' = cur /\ conv_seq' = conv_seq]_vars

\* A second pass without truncate has stored a message without a role under a
\* conversation the first pass did not create.
C21_Witness ==
    /\ passes = 2 /\ ~truncate /\ prev.conversations # {}
    /\ \E r \in tbl.conversation_messages \ prev.conversation_messages :
          /\ r.role = PyStr(S_assistant)
          /\ \A c \in prev.conversations : c.id # r.conversation_id
          /\ \E c \in tbl.conversations : c.id = r.conversation_id
    /\ \E i \in 1..Len(ConvoEntries) :
          \E j \in 1..Len(MessagesOf(ConvoEntries[i])) :
              MessagesOf(ConvoEntries[i])[j].role.k = "absent"

\* The entries of the analytics snapshot, and the model_id and blob the
\* importer is to store for each.
AnalyticsEntries == files.analytics.recs
LastWith(m) ==
    CHOOSE i \in 1..Len(AnalyticsEntries) :
        /\ BlobTarget(AnalyticsEntries[i]).model_id = m
        /\ \A j \in (i + 1)..Len(AnalyticsEntries) :
               BlobTarget(AnalyticsEntries[j]).model_id # m
AnalyticsModelIds ==
    {BlobTarget(AnalyticsEntries[i]).model_id : i \in 1..Len(AnalyticsEntries)} \ {<<>>}

\* Nothing but the analytics snapshot differs from the baseline directory, or
\* is missing.
OnlyAnalyticsVaries ==
    \A x \in SectionSet \ {"analytics"} : files[x] \in {Baseline[x], FileAbsent}

\* C22: when the analytics snapshot is present, a pass that met no other
\* obstacle ends with a models row for every non-blank model_id of the list and
\* exactly one model_analytics row per such model_id, whose payload is the blob
\* of the last entry with that model_id.
C22_AnalyticsStoredPerModel ==
    (/\ pc = "idle" /\ passes >= 1 /\ db_up
     /\ files.analytics.st = "ok" /\ OnlyAnalyticsVaries) =>
        \A m \in AnalyticsModelIds :
            /\ \E r \in tbl.models : r.id = m
            /\ Cardinality({r \in tbl.model_analytics : r.model_id = m}) = 1
            /\ \A r \in tbl.model_analytics :
                   r.model_id = m =>
                       r.payload = json_dumps(BlobTarget(AnalyticsEntries[LastWith(m)]).payload)

\* The positions of the snapshot: entry, place in the entry's map.
PositionPlaces ==
    {<<i, j>> \in (1..Len(Recs("positions"))) \X (1..2) :
        j <= Len(PositionItems(Recs("positions")[i]))}
PlaceModel(q) == ModelIdOf(Recs("positions")[q[1]])
PlaceSymbol(q) == PositionItems(Recs("positions")[q[1]])[q[2]].sym
PlaceEntryMs(q) ==
    to_ms_float(Get(PositionItems(Recs("positions")[q[1]])[q[2]].pos.entry_time, PyNone)).v

\* C24: two positions that differ in model_id, symbol or normalised entry
\* timestamp never get the same synthetic id, so none is dropped as the
\* duplicate of another: after a pass that ended well every position of the
\* snapshot has its row, whatever characters its model_id and symbol hold.
C24_DistinctPositionsKeptApart ==
    (pc = "idle" /\ outcome = "ok" /\ files.positions.st = "ok") =>
        /\ \A q \in PositionPlaces :
               \E r \in tbl.positions :
                   /\ r.model_id = PlaceModel(q)
                   /\ r.symbol = PlaceSymbol(q)
                   /\ r.entry_ts_ms = PlaceEntryMs(q)
        /\ \A q1, q2 \in PositionPlaces :
               <<PlaceModel(q1), PlaceSymbol(q1), PlaceEntryMs(q1)>>
                       # <<PlaceModel(q2), PlaceSymbol(q2), PlaceEntryMs(q2)>>
                   => PositionId(PlaceModel(q1), PlaceSymbol(q1), PlaceEntryMs(q1))
                          # PositionId(PlaceModel(q2), PlaceSymbol(q2), PlaceEntryMs(q2))

\* The summary line of the pass (importer.py 172-176).
Summary == log[Len(log)]

\* C25: the distinct-model and distinct-symbol totals logged at the end of a
\* pass are the numbers of distinct models keys and symbols keys the pass
\* upserted: after a pass that started on empty tables, or emptied them, the
\* numbers of rows of models and of symbols.
C25_TotalsCountUpsertedKeys ==
    (pc = "idle" /\ outcome = "ok" /\ (truncate \/ prev = EmptyTables)) =>
        /\ Summary.sec = "summary"
        /\ Summary.n = Cardinality(tbl.models)
        /\ Summary.n2 = Cardinality(tbl.symbols)

(***************************************************************************)
(* FURTHER PROPERTIES OF THE NORMALISERS (checked under SpecFn)            *)
(***************************************************************************)

\* A finite number, or a string that denotes one.
IsNumeric(value) ==
    \/ value.k \in {"int", "float"} /\ value.v.c \in {"fin", "big"}
    \/ value.k = "str" /\ \E p \in NumericStrings : p[1] = value.s

\* A finite number every double holds exactly (below 2^53 in magnitude), or a
\* string that denotes one.
IsExactNumeric(value) ==
    \/ value.k \in {"int", "float"} /\ value.v.c = "fin"
    \/ value.k = "str" /\ \E p \in NumericStrings : p[1] = value.s

\* int(x * 1000) if x < 1e12 else int(x), for a float x.
MsRule(x) ==
    CASE x.c = "nan" -> Raise("ValueError")
      [] x.c = "inf" -> Raise("OverflowError")
      [] x.c = "big" -> Ok(PyInt(x))
      [] OTHER -> Ok(PyInt(IF BelowThreshold(x) THEN ThousandfoldTruncated(x)
                                              ELSE Truncated(x)))

\* C23 as stated: on every numeric or numeric-string input to_ms_float and to_ms
\* return the same value.
C23_SameAsToMsOnNumbers ==
    /\ (fn_name = "to_ms_float" /\ IsNumeric(fn_arg)) => fn_res = to_ms(fn_arg)
    /\ (fn_name = "to_ms" /\ IsNumeric(fn_arg)) => fn_res = to_ms_float(fn_arg)

\* C23 amended: for every input that float() accepts, to_ms_float applies the
\* 1e12 rule to the parsed float (int() of it raises for nan and the
\* infinities) and does no ISO-8601 parsing; for every other input it returns
\* what to_ms returns; it returns what to_ms returns on every number below 2^53
\* in magnitude and every string denoting one, while an int of 2^53 or more is
\* returned as the nearest double by to_ms_float and unchanged by to_ms.
C23_FloatParseFirstThenToMs ==
    /\ fn_name = "to_ms_float" =>
          /\ Parseable(fn_arg) => fn_res = MsRule(ParsedFloat(fn_arg))
          /\ ~Parseable(fn_arg) => fn_res = to_ms(fn_arg)
          /\ IsExactNumeric(fn_arg) => fn_res = to_ms(fn_arg)
          /\ (fn_arg.k = "int" /\ fn_arg.v.c = "big") =>
                 fn_res = Ok(PyInt(FloatOfInt(fn_arg.v))) /\ to_ms(fn_arg) = Ok(fn_arg)
    /\ (fn_name = "to_ms" /\ IsExactNumeric(fn_arg)) => fn_res = to_ms_float(fn_arg)

\* to_ms_float(2^53 + 1) has returned 2^53, and to_ms returns 2^53 + 1.
C23_Witness ==
    /\ fn_name = "to_ms_float"
    /\ fn_arg = PyInt(Big(9007, 199254, 740993))
    /\ fn_res = Ok(PyInt(Big(9007, 199254, 740992)))
    /\ to_ms(fn_arg) = Ok(PyInt(Big(9007, 199254, 740993)))

(***************************************************************************)
(* PART 3: the snapshot reader (data_loader.py)                            *)
(*                                                                         *)
(* The data directory of the reader is the record files with the fields    *)
(* per_model (the file analytics-<m>.json of the model m asked for),       *)
(* aggregated (analytics.json) and account_totals (account-totals.json).   *)
(* fn_arg is the model id asked for, fn_res the value a call returned, now *)
(* the wall clock in milliseconds.                                         *)
(***************************************************************************)

\* Number of readings of the clock a behaviour makes.
MaxClock == 3

\* A JSON array, and an analytics object: its model_id and the rest of it.
JList(items) == [k |-> "list", items |-> items]
Entry(model_id, rest) == [k |-> "dict", model_id |-> model_id, rest |-> rest]

\* {} and {"model_id": m}
EmptyObject == Entry(Absent, "")
Placeholder(model_id) == Entry(PyStr(model_id), "")

\* The top-level object of an analytics file: its "analytics" key, and the
\* model_id and rest it carries beside it.
AnalyticsFile(analytics, model_id, rest) ==
    [k |-> "dict", analytics |-> analytics, model_id |-> model_id, rest |-> rest]

\* The top-level object of account-totals.json.
TotalsFile(accountTotals, serverTime) ==
    [k |-> "dict", accountTotals |-> accountTotals, serverTime |-> serverTime]

\* A file that holds one JSON value.
JsonFile(value) == [st |-> "ok", value |-> value]

\* DataLoader._load_json (data_loader.py 93-96) on a file of the reader's directory.
_load_json(f) ==
    CASE f.st = "absent" -> Raise("FileNotFoundError")
      [] f.st = "malformed" -> Raise("JSONDecodeError")
      [] OTHER -> Ok(f.value)

\* _current_millis (data_loader.py 17-18): int(time() * 1000)
_current_millis(clock) == PyInt(Nat2Num(clock))

\* load_account_totals that keeps a serverTime the file carries.
load_account_totals_KeepFileTime(dir, clock) ==
    LET r == _load_json(dir.account_totals)
    IN IF ~r.ok THEN r
       ELSE IF r.v.k # "dict" THEN Raise("TypeError")
       ELSE IF r.v.serverTime.k # "absent" THEN Ok(r.v)
       ELSE Ok([r.v EXCEPT !.serverTime = _current_millis(clock)])

\* load_account_totals (data_loader.py 32-35)
load_account_totals(dir, clock) ==
    LET r == _load_json(dir.account_totals)
    IN IF ~r.ok THEN r
       ELSE IF r.v.k # "dict" THEN Raise("TypeError")
       ELSE Ok([r.v EXCEPT !.serverTime = _current_millis(clock)])

\* load_analytics (data_loader.py 50-53); the serverTime it adds is not read by
\* load_model_analytics and is left out.
load_analytics(dir) ==
    LET r == _load_json(dir.aggregated)
    IN IF ~r.ok THEN r
       ELSE IF r.v.k # "dict" THEN Raise("TypeError")
       ELSE r

\* The first entry of a list that is an object with the model_id asked for
\* (data_loader.py 72-75); 0 if there is none.
RECURSIVE FirstMatch(_, _, _)
FirstMatch(items, model_id, i) ==
    IF i > Len(items) THEN 0
    ELSE IF items[i].k = "dict" /\ Get(items[i].model_id, PyNone) = PyStr(model_id) THEN i
    ELSE FirstMatch(items, model_id, i + 1)

\* data_loader.py 58-67: the per-model file; payload is None when it is missing.
PerModelPayload(dir) ==
    LET r == _load_json(dir.per_model)
    IN IF ~r.ok
       THEN (IF r.exc = "FileNotFoundError" THEN Ok(PyNone) ELSE r)
       ELSE IF r.v.k # "dict" THEN Raise("AttributeError")
       ELSE LET a == Get(r.v.analytics, PyNone)
                analytics == IF a.k = "none" THEN Entry(r.v.model_id, r.v.rest) ELSE a
            IN IF analytics.k = "list"
               THEN Ok(IF analytics.items # <<>> THEN analytics.items[1] ELSE EmptyObject)
               ELSE Ok(analytics)

\* data_loader.py 69-75: the aggregated list; payload stays None without a match.
AggregatedPayload(dir, model_id) ==
    LET r == load_analytics(dir)
    IN IF ~r.ok THEN r
       ELSE LET analytics_list == Get(r.v.analytics, JList(<<>>))
            IN IF analytics_list.k \in {"dict", "str"} THEN Ok(PyNone)
               ELSE IF analytics_list.k # "list" THEN Raise("TypeError")
               ELSE LET i == FirstMatch(analytics_list.items, model_id, 1)
                    IN IF i = 0 THEN Ok(PyNone) ELSE Ok(analytics_list.items[i])

\* load_model_analytics that takes the last element of a per-model list.
load_model_analytics_LastElement(dir, model_id, clock) ==
    LET r == _load_json(dir.per_model)
        p == PerModelPayload(dir)
        q == IF p.ok /\ p.v.k = "none" THEN AggregatedPayload(dir, model_id) ELSE p
        last == r.v.analytics.items[Len(r.v.analytics.items)]
        isList == r.ok /\ r.v.k = "dict" /\ Get(r.v.analytics, PyNone).k = "list"
                    /\ Get(r.v.analytics, PyNone).items # <<>>
    IN IF ~q.ok THEN q
       ELSE Ok([analytics |-> IF isList THEN last
                              ELSE IF q.v.k = "none" THEN Placeholder(model_id) ELSE q.v,
                serverTime |-> _current_millis(clock)])

\* load_model_analytics (data_loader.py 55-81)
load_model_analytics(dir, model_id, clock) ==
    LET p == PerModelPayload(dir)
        q == IF p.ok /\ p.v.k = "none" THEN AggregatedPayload(dir, model_id) ELSE p
    IN IF ~q.ok THEN q
       ELSE Ok([analytics |-> IF q.v.k = "none" THEN Placeholder(model_id) ELSE q.v,
                serverTime |-> _current_millis(clock)])

\* Contents of analytics-<m>.json, analytics.json and account-totals.json.
PerModelFiles ==
    { FileAbsent, FileMalformed,
      JsonFile(AnalyticsFile(Entry(PyStr(S_m1), "a"), Absent, "")),
      JsonFile(AnalyticsFile(JList(<<Entry(PyStr(S_m1), "a"), Entry(PyStr(S_m1), "b")>>), Absent, "")),
      JsonFile(AnalyticsFile(JList(<<>>), Absent, "")),
      JsonFile(AnalyticsFile(Absent, PyStr(S_m1), "a")),
      JsonFile(AnalyticsFile(Entry(Absent, "a"), Absent, "")),
      JsonFile(JList(<<>>)) }

AggregatedFiles ==
    { FileAbsent, FileMalformed,
      JsonFile(AnalyticsFile(JList(<<Entry(PyStr(S_m2), "a"), Entry(PyStr(S_m1), "a"),
                                     Entry(PyStr(S_m1), "b")>>), Absent, "")),
      JsonFile(AnalyticsFile(JList(<<PyStr(S_abc), Entry(Absent, "a")>>), Absent, "")),
      JsonFile(AnalyticsFile(Absent, Absent, "")),
      JsonFile(AnalyticsFile(PyNone, Absent, "")) }

TotalsFiles ==
    { FileAbsent,
      JsonFile(TotalsFile(JList(<<Entry(PyStr(S_m1), "a")>>), Absent)),
      JsonFile(TotalsFile(JList(<<Entry(PyStr(S_m1), "a")>>), PyInt(Fin(FALSE, 0, 5000, 0)))),
      JsonFile(TotalsFile(JList(<<>>), PyStr(S_abc))),
      JsonFile(TotalsFile(Absent, Absent)),
      JsonFile(JList(<<>>)) }

LoaderDirs ==
    [per_model : PerModelFiles, aggregated : AggregatedFiles, account_totals : TotalsFiles]

ModelIds == {S_m1, S_m2}

InitLoader ==
    /\ files \in LoaderDirs
    /\ tbl = EmptyTables
    /\ conv_seq = 0 /\ msg_seq = 0
    /\ now = 1
    /\ db_up = TRUE
    /\ pc = "idle"
    /\ idx = 0 /\ sub = 0 /\ cur = NoLocals
    /\ model_ids = {} /\ symbols = {}
    /\ truncate = FALSE
    /\ passes = 0
    /\ outcome = "none"
    /\ log = <<>>
    /\ prev = EmptyTables
    /\ prev_outcome = "none"
    /\ fn_name = "none" /\ fn_arg \in {PyStr(m) : m \in ModelIds} /\ fn_res = Ok(PyNone)

\* A call of the reader: it reads the clock, which has advanced by the next call.
Call(name, result) ==
    /\ now <= MaxClock
    /\ fn_name' = name
    /\ fn_res' = result
    /\ now' = now + 1
    /\ UNCHANGED <<files, tbl, conv_seq, msg_seq, db_up, pc, idx, sub, cur, model_ids,
                   symbols, truncate, passes, outcome, log, prev, prev_outcome, fn_arg>>

CallLoadAccountTotals == Call("load_account_totals", load_account_totals(files, now))
CallLoadModelAnalytics == Call("load_model_analytics", load_model_analytics(files, fn_arg.s, now))

NextLoader ==
    \/ CallLoadAccountTotals
    \/ CallLoadModelAnalytics

SpecLoader == InitLoader /\ [][NextLoader]_vars

(***************************************************************************)
(* PROPERTIES OF THE SNAPSHOT READER (checked under SpecLoader)            *)
(***************************************************************************)

\* The model asked for, and the clock reading of the last call.
Asked == fn_arg.s
ReadAt == _current_millis(now - 1)

\* The entries of the aggregated list, when analytics.json holds one.
AggregatedEntries ==
    LET f == files.aggregated
    IN IF f.st = "ok" /\ f.value.k = "dict" /\ f.value.analytics.k = "list"
       THEN f.value.analytics.items ELSE <<>>

Matches(i, m) == AggregatedEntries[i].k = "dict" /\ AggregatedEntries[i].model_id = PyStr(m)
HasEntry(m) == \E i \in 1..Len(AggregatedEntries) : Matches(i, m)

\* The object of analytics-<m>.json, when the file holds one (the first element
\* of a non-empty list).
HasPerModelObject ==
    LET f == files.per_model
    IN /\ f.st = "ok" /\ f.value.k = "dict"
       /\ \/ f.value.analytics.k = "dict"
          \/ f.value.analytics.k = "list" /\ f.value.analytics.items # <<>>
PerModelObject ==
    LET a == files.per_model.value.analytics
    IN IF a.k = "list" THEN a.items[1] ELSE a

\* C16: load_model_analytics(m), for a model m with no per-model analytics file
\* and no entry with model_id m in the aggregated list, returns the placeholder
\* {"analytics": {"model_id": m}, "serverTime": ...} in every state of the data
\* directory.
C16_PlaceholderInEveryDirectory ==
    (fn_name = "load_model_analytics" /\ files.per_model.st = "absent" /\ ~HasEntry(Asked))
        => fn_res = Ok([analytics |-> Placeholder(Asked), serverTime |-> ReadAt])

\* The per-model file is missing or holds a JSON object.
PerModelReadable ==
    \/ files.per_model.st = "absent"
    \/ files.per_model.st = "ok" /\ files.per_model.value.k = "dict"

\* A model has data when its per-model file holds an object with its model_id,
\* or the aggregated list holds an entry with its model_id.
HasData(m) ==
    \/ HasPerModelObject /\ PerModelObject.model_id = PyStr(m)
    \/ HasEntry(m)

\* What load_model_analytics takes from a per-model file that holds an object:
\* its analytics (the first element of a list, {} for an empty list), or the
\* whole object if it has no analytics.
TakenFromPerModel ==
    LET d == files.per_model.value
    IN IF d.analytics.k \in {"absent", "none"} THEN Entry(d.model_id, d.rest)
       ELSE IF d.analytics.k # "list" THEN d.analytics
       ELSE IF d.analytics.items = <<>> THEN EmptyObject
       ELSE d.analytics.items[1]

\* C17 as stated: load_model_analytics(m), for a model m that has data and a
\* per-model file that is missing or a JSON object, returns a payload whose
\* analytics.model_id is m.
C17_ModelWithDataGetsItsModelId ==
    (fn_name = "load_model_analytics" /\ PerModelReadable /\ HasData(Asked)) =>
        /\ fn_res.ok
        /\ fn_res.v.analytics.model_id = PyStr(Asked)

\* C17 amended: load_model_analytics(m) returns what the per-model file holds
\* when the file exists (the first element if its analytics is a list, {} if
\* the list is empty), whatever model_id that carries and whatever the
\* aggregated list holds; otherwise the first entry of the aggregated list
\* whose model_id is m.  analytics.model_id is m when the per-model file is
\* missing or holds an object with model_id m.
C17_PerModelFileElseFirstAggregatedEntry ==
    fn_name = "load_model_analytics" =>
        /\ (files.per_model.st = "ok" /\ files.per_model.value.k = "dict") =>
               /\ fn_res.ok
               /\ fn_res.v.analytics = TakenFromPerModel
               /\ fn_res.v.serverTime = ReadAt
        /\ (files.per_model.st = "absent" /\ HasEntry(Asked)) =>
               /\ fn_res.ok
               /\ \E i \in 1..Len(AggregatedEntries) :
                      /\ Matches(i, Asked)
                      /\ \A j \in 1..(i - 1) : ~Matches(j, Asked)
                      /\ fn_res.v.analytics = AggregatedEntries[i]
               /\ fn_res.v.analytics.model_id = PyStr(Asked)
        /\ (HasPerModelObject /\ PerModelObject.model_id = PyStr(Asked)) =>
               fn_res.ok /\ fn_res.v.analytics.model_id = PyStr(Asked)

\* A per-model list of two objects was read, and the aggregated list has
\* entries for the model as well.
C17_Witness ==
    /\ fn_name = "load_model_analytics"
    /\ Asked = S_m1
    /\ HasPerModelObject
    /\ files.per_model.value.analytics.k = "list"
    /\ Len(files.per_model.value.analytics.items) = 2
    /\ HasEntry(Asked)
    /\ fn_res.ok
    /\ fn_res.v.analytics = Entry(PyStr(S_m1), "a")

\* C18: load_account_totals returns the object of account-totals.json, its
\* accountTotals key included, with serverTime set to the clock reading, a
\* positive whole number of milliseconds, whatever serverTime the file carries.
C18_AccountTotalsStampedWithClock ==
    LET f == files.account_totals
    IN (fn_name = "load_account_totals" /\ f.st = "ok" /\ f.value.k = "dict") =>
        /\ fn_res.ok
        /\ fn_res.v.accountTotals = f.value.accountTotals
        /\ fn_res.v.serverTime = ReadAt
        /\ fn_res.v.serverTime.k = "int"
        /\ ~fn_res.v.serverTime.v.neg /\ fn_res.v.serverTime.v.fr = 0
        /\ fn_res.v.serverTime.v.hi > 0 \/ fn_res.v.serverTime.v.lo > 0
        /\ fn_res.v = [f.value EXCEPT !.serverTime = fn_res.v.serverTime]

C18_Witness ==
    /\ fn_name = "load_account_totals"
    /\ files.account_totals.st = "ok" /\ files.account_totals.value.k = "dict"
    /\ files.account_totals.value.serverTime = PyInt(Fin(FALSE, 0, 5000, 0))
    /\ files.account_totals.value.accountTotals.k = "list"
    /\ fn_res.ok /\ fn_res.v.serverTime # PyInt(Fin(FALSE, 0, 5000, 0))

====
